---- MODULE Spec2Model ----
(***************************************************************************)
(* The swim verdict engine of swim.today (lib/swim_score.py) and the       *)
(* static tables it reads (lib/constants.py); further down, the handlers   *)
(* of app.py with their two fetches and the renderers, calls of the engine *)
(* running side by side, and the easter eggs of lib/easter_eggs.py.        *)
(*                                                                         *)
(* Numbers.  Every measurement is a fixed-point number in tenths of its    *)
(* unit: a wave height of 1.5 m is 15, a wind speed of 35.0 km/h is 350,   *)
(* a precipitation of 0.1 mm is 1.  Weather codes are plain integers.      *)
(* An optional number is a tuple: None is << >> and the number v is <<v>>. *)
(* float("inf") is the tuple <<1, 0>>.                                     *)
(***************************************************************************)
EXTENDS Integers, Sequences, FiniteSets, TLC

VARIABLES
    order,      \* iteration order of the set SAFETY_FACTORS in this process
    marine,     \* the marine reading handed to evaluate_conditions
    weather,    \* the weather reading handed to evaluate_conditions
    result,     \* what evaluate_conditions returned, NoResult before the call
    last,       \* what the previous call with these readings returned
    pc,         \* "ready" before the call, "done" after it
    cvalue,     \* the value handed to _classify
    ctable,     \* the name of the threshold table handed to _classify
    cresult,    \* <<label, verdict>> returned by _classify, NoClass before the call
    handler,    \* the function of app.py serving the request
    fmt,        \* the output format _get_format chose for the request
    geo,        \* how geocode(location) ended
    marine_future,   \* the future of fetch_marine_data
    weather_future,  \* the future of fetch_weather_data
    response,   \* what the handler returned, NoResponse before it returns
    calls,      \* the calls of evaluate_conditions running side by side
    frames,     \* the local variables factors and tips of those calls
    location,   \* the location handed to get_easter_egg
    egg         \* what get_easter_egg returned, NoEgg before the call

evalVars == <<order, marine, weather, result, last, pc>>
classVars == <<cvalue, ctable, cresult>>
appVars == <<handler, fmt, geo, marine_future, weather_future, response>>
threadVars == <<calls, frames>>
eggVars == <<location, egg>>
vars == <<evalVars, classVars, appVars, threadVars, eggVars>>

---------------------------------------------------------------------------
(* Values *)

None == << >>
Num(v) == <<v>>
inf == <<1, 0>>

YES == "YES"
MAYBE == "MAYBE"
NO == "NO"
\* Python's None in a verdict position
NoneVerdict == "<None>"

---------------------------------------------------------------------------
(* lib/constants.py: thresholds, in tenths *)

WATER_TEMP_LABELS ==
    << <<Num(100), "Freezing", NoneVerdict>>,
       <<Num(150), "Very Cold", NoneVerdict>>,
       <<Num(180), "Cold", NoneVerdict>>,
       <<Num(200), "Cool", NoneVerdict>>,
       <<Num(240), "Mild", NoneVerdict>>,
       <<Num(270), "Comfortable", NoneVerdict>>,
       <<Num(300), "Warm", NoneVerdict>>,
       <<Num(350), "Very Warm", NoneVerdict>>,
       <<inf, "Hot", NoneVerdict>> >>

\* WAVE_HEIGHT_LABELS with "Moderate" waves still a green flag
WAVE_HEIGHT_LABELS_late_caution ==
    << <<Num(3), "Glassy", YES>>,
       <<Num(6), "Calm", YES>>,
       <<Num(10), "Slight", YES>>,
       <<Num(15), "Moderate", YES>>,
       <<Num(20), "Rough", MAYBE>>,
       <<Num(30), "Very Rough", NO>>,
       <<inf, "Dangerous", NO>> >>

WAVE_HEIGHT_LABELS ==
    << <<Num(3), "Glassy", YES>>,
       <<Num(6), "Calm", YES>>,
       <<Num(10), "Slight", YES>>,
       <<Num(15), "Moderate", MAYBE>>,
       <<Num(20), "Rough", MAYBE>>,
       <<Num(30), "Very Rough", NO>>,
       <<inf, "Dangerous", NO>> >>

\* a wind table whose "Very Strong" row is cautionary
WIND_SPEED_LABELS_very_strong_caution ==
    << <<Num(100), "Calm", YES>>,
       <<Num(200), "Light Breeze", YES>>,
       <<Num(300), "Moderate", MAYBE>>,
       <<Num(400), "Strong", MAYBE>>,
       <<Num(500), "Very Strong", MAYBE>>,
       <<inf, "Extreme", NO>> >>

WIND_SPEED_LABELS ==
    << <<Num(100), "Calm", YES>>,
       <<Num(200), "Light Breeze", YES>>,
       <<Num(300), "Moderate", MAYBE>>,
       <<Num(400), "Strong", MAYBE>>,
       <<Num(500), "Very Strong", NO>>,
       <<inf, "Extreme", NO>> >>

\* a UV table whose last bucket stops at 11 instead of inf
UV_INDEX_LABELS_bounded ==
    <<<<Num(20), "Low", NoneVerdict>>,
      <<Num(50), "Moderate", NoneVerdict>>,
      <<Num(70), "High", NoneVerdict>>,
      <<Num(100), "Very High", NoneVerdict>>,
      <<Num(110), "Extreme", NoneVerdict>>>>

UV_INDEX_LABELS ==
    << <<Num(20), "Low", NoneVerdict>>,
       <<Num(50), "Moderate", NoneVerdict>>,
       <<Num(70), "High", NoneVerdict>>,
       <<Num(100), "Very High", NoneVerdict>>,
       <<inf, "Extreme", NoneVerdict>> >>

PRECIP_LABELS ==
    << <<Num(1), "None", YES>>,
       <<Num(20), "Light Rain", YES>>,
       <<Num(50), "Moderate Rain", MAYBE>>,
       <<Num(100), "Heavy Rain", NO>>,
       <<inf, "Torrential", NO>> >>

\* the keys of the two weather-code dictionaries (their values are never read)
DANGEROUS_WEATHER_CODES == {95, 96, 99}

WARNING_WEATHER_CODES ==
    {51, 53, 55, 61, 63, 65, 66, 67, 71, 73, 75, 77, 80, 81, 82, 85, 86}

\* a description table that lacks the entry of code 86
WMO_WEATHER_DESCRIPTIONS_without_86 ==
    (0 :> "Clear sky") @@ (1 :> "Mainly clear") @@ (2 :> "Partly cloudy") @@
    (3 :> "Overcast") @@ (45 :> "Foggy") @@ (48 :> "Depositing rime fog") @@
    (51 :> "Light drizzle") @@ (53 :> "Moderate drizzle") @@
    (55 :> "Dense drizzle") @@ (56 :> "Light freezing drizzle") @@
    (57 :> "Dense freezing drizzle") @@ (61 :> "Slight rain") @@
    (63 :> "Moderate rain") @@ (65 :> "Heavy rain") @@
    (66 :> "Light freezing rain") @@ (67 :> "Heavy freezing rain") @@
    (71 :> "Slight snow fall") @@ (73 :> "Moderate snow fall") @@
    (75 :> "Heavy snow fall") @@ (77 :> "Snow grains") @@
    (80 :> "Slight rain showers") @@ (81 :> "Moderate rain showers") @@
    (82 :> "Violent rain showers") @@ (85 :> "Slight snow showers") @@
    (95 :> "Thunderstorm") @@
    (96 :> "Thunderstorm with slight hail") @@
    (99 :> "Thunderstorm with heavy hail")

WMO_WEATHER_DESCRIPTIONS ==
    (0 :> "Clear sky") @@ (1 :> "Mainly clear") @@ (2 :> "Partly cloudy") @@
    (3 :> "Overcast") @@ (45 :> "Foggy") @@ (48 :> "Depositing rime fog") @@
    (51 :> "Light drizzle") @@ (53 :> "Moderate drizzle") @@
    (55 :> "Dense drizzle") @@ (56 :> "Light freezing drizzle") @@
    (57 :> "Dense freezing drizzle") @@ (61 :> "Slight rain") @@
    (63 :> "Moderate rain") @@ (65 :> "Heavy rain") @@
    (66 :> "Light freezing rain") @@ (67 :> "Heavy freezing rain") @@
    (71 :> "Slight snow fall") @@ (73 :> "Moderate snow fall") @@
    (75 :> "Heavy snow fall") @@ (77 :> "Snow grains") @@
    (80 :> "Slight rain showers") @@ (81 :> "Moderate rain showers") @@
    (82 :> "Violent rain showers") @@ (85 :> "Slight snow showers") @@
    (86 :> "Heavy snow showers") @@ (95 :> "Thunderstorm") @@
    (96 :> "Thunderstorm with slight hail") @@
    (99 :> "Thunderstorm with heavy hail")

\* a Python set: its members, in no order
SAFETY_FACTORS == {"wave_height", "wind_speed", "precipitation", "weather_code"}

\* the threshold tables by name
Tables ==
    [water_temp |-> WATER_TEMP_LABELS,
     wave_height |-> WAVE_HEIGHT_LABELS,
     wind_speed |-> WIND_SPEED_LABELS,
     uv_index |-> UV_INDEX_LABELS,
     precipitation |-> PRECIP_LABELS]

TableNames == DOMAIN Tables

---------------------------------------------------------------------------
(* lib/swim_score.py: _classify *)

\* value <= upper: a value on a bound stays in the bucket below
Less_or_equal(value, upper) == IF upper = inf THEN TRUE ELSE value <= upper[1]

\* value < upper, for a finite value and an upper bound that may be inf
Less(value, upper) == IF upper = inf THEN TRUE ELSE value < upper[1]

\* the for loop of _classify from entry i on, and the return after the loop
RECURSIVE classify_loop(_, _, _)
classify_loop(value, thresholds, i) ==
    IF i > Len(thresholds)
    THEN <<thresholds[Len(thresholds)][2], thresholds[Len(thresholds)][3]>>
    ELSE IF Less(value, thresholds[i][1])
         THEN <<thresholds[i][2], thresholds[i][3]>>
         ELSE classify_loop(value, thresholds, i + 1)

\* where _classify returns for a present value: the index of the loop
\* iteration whose test succeeds, or 0 for the return after the loop
RECURSIVE classify_return(_, _, _)
classify_return(value, thresholds, i) ==
    IF i > Len(thresholds)
    THEN 0
    ELSE IF Less(value, thresholds[i][1])
         THEN i
         ELSE classify_return(value, thresholds, i + 1)

\* _classify that reports an absent value as unsafe
_classify_absent_unsafe(value, thresholds) ==
    IF value = None
    THEN <<"Unknown", NO>>
    ELSE classify_loop(value[1], thresholds, 1)

\* (label, verdict); the third component, ratio, is discarded by every caller
_classify(value, thresholds) ==
    IF value = None
    THEN <<"Unknown", NoneVerdict>>
    ELSE classify_loop(value[1], thresholds, 1)

---------------------------------------------------------------------------
(* lib/swim_score.py: bar helpers *)

Min(a, b) == IF a <= b THEN a ELSE b
Max(a, b) == IF a >= b THEN a ELSE b

\* Python's int(n / d) for d > 0: truncation toward zero
Trunc(n, d) == IF n >= 0 THEN n \div d ELSE -((-n) \div d)

_temp_bar(temp_c) ==
    IF temp_c < 100 THEN 1
    ELSE IF temp_c < 150 THEN 2
    ELSE IF temp_c < 180 THEN 3
    ELSE IF temp_c < 200 THEN 4
    ELSE IF temp_c < 220 THEN 5
    ELSE IF temp_c < 240 THEN 6
    ELSE IF temp_c < 260 THEN 7
    ELSE IF temp_c < 280 THEN 8
    ELSE IF temp_c < 300 THEN 9
    ELSE 10

_wave_bar(wave_m) ==
    IF wave_m < 2 THEN 1
    ELSE IF wave_m < 4 THEN 2
    ELSE IF wave_m < 6 THEN 3
    ELSE IF wave_m < 8 THEN 4
    ELSE IF wave_m < 10 THEN 5
    ELSE IF wave_m < 15 THEN 6
    ELSE IF wave_m < 20 THEN 7
    ELSE IF wave_m < 25 THEN 8
    ELSE IF wave_m < 30 THEN 9
    ELSE 10

\* min(10, max(1, int(wind_kmh / 5))), wind_kmh in tenths
_wind_bar(wind_kmh) == Min(10, Max(1, Trunc(wind_kmh, 50)))

---------------------------------------------------------------------------
(* lib/swim_score.py: evaluate_conditions, section by section *)

\* dict.get(key, default) on a reading whose keys may be missing
Get(d, key, default) == IF key \in DOMAIN d THEN d[key] ELSE default

\* Python's "x or 0" on an optional number: None and 0 are falsy
OrZero(x) == IF x = None \/ x = Num(0) THEN 0 ELSE x[1]

Factor(value, unit, label, verdict, bar) ==
    [value |-> value, unit |-> unit, label |-> label, verdict |-> verdict,
     bar |-> bar]

\* factors["water_temp"] with the verdict of a cold-water rule in it
water_temp_factor_scored(m) ==
    LET water_temp == Get(m, "sea_surface_temp", None)
        c == _classify(water_temp, WATER_TEMP_LABELS)
    IN  Factor(water_temp, "C", c[1],
               IF water_temp # None /\ water_temp[1] < 150 THEN MAYBE ELSE YES,
               IF water_temp # None THEN _temp_bar(water_temp[1]) ELSE 0)

\* factors["water_temp"]
water_temp_factor(m) ==
    LET water_temp == Get(m, "sea_surface_temp", None)
        c == _classify(water_temp, WATER_TEMP_LABELS)
    IN  Factor(water_temp, "C", c[1], NoneVerdict,
               IF water_temp # None THEN _temp_bar(water_temp[1]) ELSE 0)

\* the water tips with "if" where the code has "elif": very cold water gets
\* both tips
water_temp_tips_both_tiers(m) ==
    LET water_temp == Get(m, "sea_surface_temp", None)
    IN  IF water_temp # None
        THEN (IF water_temp[1] < 150
              THEN <<"Water is very cold. Consider a wetsuit.">>
              ELSE << >>)
             \o (IF water_temp[1] < 180
                 THEN <<"Water is cold. A wetsuit may help.">>
                 ELSE << >>)
        ELSE << >>

water_temp_tips(m) ==
    LET water_temp == Get(m, "sea_surface_temp", None)
    IN  IF water_temp # None
        THEN IF water_temp[1] < 150
             THEN <<"Water is very cold. Consider a wetsuit.">>
             ELSE IF water_temp[1] < 180
                  THEN <<"Water is cold. A wetsuit may help.">>
                  ELSE << >>
        ELSE << >>

\* factors["wave_height"]
wave_height_factor(m) ==
    LET wave_height == Get(m, "wave_height", None)
        c == _classify(wave_height, WAVE_HEIGHT_LABELS)
    IN  Factor(wave_height, "m", c[1], c[2],
               IF wave_height # None THEN _wave_bar(wave_height[1]) ELSE 0)

\* the wave tips with the dangerous tier starting where the verdict turns NO
wave_height_tips_at_verdict(m) ==
    LET wave_height == Get(m, "wave_height", None)
    IN  IF wave_height # None
        THEN IF wave_height[1] >= 20
             THEN <<"Dangerous waves. Red flag conditions.">>
             ELSE IF wave_height[1] >= 15
                  THEN <<"Rough waves. Experienced swimmers only.">>
                  ELSE << >>
        ELSE << >>

\* the wave tips with both tiers one table row early: dangerous from 1.5 m,
\* rough from 1.0 m
wave_height_tips_row_early(m) ==
    LET wave_height == Get(m, "wave_height", None)
    IN  IF wave_height # None
        THEN IF wave_height[1] >= 15
             THEN <<"Dangerous waves. Red flag conditions.">>
             ELSE IF wave_height[1] >= 10
                  THEN <<"Rough waves. Experienced swimmers only.">>
                  ELSE << >>
        ELSE << >>

wave_height_tips(m) ==
    LET wave_height == Get(m, "wave_height", None)
    IN  IF wave_height # None
        THEN IF wave_height[1] >= 25
             THEN <<"Dangerous waves. Red flag conditions.">>
             ELSE IF wave_height[1] >= 15
                  THEN <<"Rough waves. Experienced swimmers only.">>
                  ELSE << >>
        ELSE << >>

\* factors["wind_speed"]
wind_speed_factor(w) ==
    LET wind_speed == Get(w, "wind_speed", None)
        c == _classify(wind_speed, WIND_SPEED_LABELS)
    IN  Factor(wind_speed, "km/h", c[1], c[2],
               IF wind_speed # None THEN _wind_bar(wind_speed[1]) ELSE 0)

wind_speed_tips(w) ==
    LET wind_speed == Get(w, "wind_speed", None)
    IN  IF wind_speed # None /\ wind_speed[1] >= 400
        THEN <<"Strong winds create dangerous rip currents.">>
        ELSE << >>

\* factors["uv_index"]
uv_index_factor(w) ==
    LET uv_index == Get(w, "uv_index", None)
        c == _classify(uv_index, UV_INDEX_LABELS)
    IN  Factor(uv_index, "", c[1], NoneVerdict,
               IF uv_index # None THEN Min(10, Trunc(uv_index[1], 10)) ELSE 0)

uv_index_tips(w) ==
    LET uv_index == Get(w, "uv_index", None)
    IN  IF uv_index # None
        THEN IF uv_index[1] >= 80
             THEN <<"Very high UV. Wear sunscreen SPF 50+ and reapply often.">>
             ELSE IF uv_index[1] >= 60
                  THEN <<"High UV. Wear sunscreen.">>
                  ELSE IF uv_index[1] >= 30
                       THEN <<"Moderate UV. Sunscreen recommended.">>
                       ELSE << >>
        ELSE << >>

\* factors["precipitation"] without the "or 0": an absent reading stays None
precipitation_factor_absent_unknown(w) ==
    LET precip == Get(w, "precipitation", None)
        c == _classify(precip, PRECIP_LABELS)
    IN  Factor(precip, "mm", c[1], c[2],
               IF precip # None THEN Min(10, Trunc(precip[1], 10)) ELSE 0)

\* factors["precipitation"]: a missing or None reading is scored as 0
precipitation_factor(w) ==
    LET precip == OrZero(Get(w, "precipitation", Num(0)))
        c == _classify(Num(precip), PRECIP_LABELS)
    IN  Factor(Num(precip), "mm", c[1], c[2], Min(10, Trunc(precip, 10)))

\* wc_desc looked up for the dangerous and the warning codes only
weather_code_desc_flagged_only(weather_code) ==
    IF weather_code \in DANGEROUS_WEATHER_CODES \cup WARNING_WEATHER_CODES
    THEN WMO_WEATHER_DESCRIPTIONS[weather_code]
    ELSE "Unknown"

\* wc_desc: WMO_WEATHER_DESCRIPTIONS.get(weather_code, "Unknown")
weather_code_desc(weather_code) ==
    IF weather_code \in DOMAIN WMO_WEATHER_DESCRIPTIONS
    THEN WMO_WEATHER_DESCRIPTIONS[weather_code]
    ELSE "Unknown"

\* wc_verdict with the dangerous codes taken for warnings
weather_code_verdict_warning_only(weather_code) ==
    IF weather_code \in DANGEROUS_WEATHER_CODES THEN MAYBE
    ELSE IF weather_code \in WARNING_WEATHER_CODES THEN MAYBE
    ELSE YES

\* wc_verdict: the dangerous set is tried first, then the warning set
weather_code_verdict(weather_code) ==
    IF weather_code \in DANGEROUS_WEATHER_CODES THEN NO
    ELSE IF weather_code \in WARNING_WEATHER_CODES THEN MAYBE
    ELSE YES

\* factors["weather_code"]: a missing or None code is scored as code 0
weather_code_factor(w) ==
    LET weather_code == OrZero(Get(w, "weather_code", Num(0)))
    IN  Factor(Num(weather_code), "", weather_code_desc(weather_code),
               weather_code_verdict(weather_code), 0)

weather_code_tips(w) ==
    LET weather_code == OrZero(Get(w, "weather_code", Num(0)))
    IN  IF weather_code \in DANGEROUS_WEATHER_CODES
        THEN <<"Dangerous weather: " \o weather_code_desc(weather_code)
               \o ". Beach closed.">>
        ELSE << >>

\* the dict factors as built by evaluate_conditions
build_factors(m, w) ==
    [water_temp |-> water_temp_factor(m),
     wave_height |-> wave_height_factor(m),
     wind_speed |-> wind_speed_factor(w),
     uv_index |-> uv_index_factor(w),
     precipitation |-> precipitation_factor(w),
     weather_code |-> weather_code_factor(w)]

\* the list tips with the sections of evaluate_conditions in another order
build_tips_sorted(m, w) ==
    wave_height_tips(m) \o weather_code_tips(w) \o uv_index_tips(w)
    \o wind_speed_tips(w) \o water_temp_tips(m)

\* the list tips, in the order of the tips.append calls
build_tips(m, w) ==
    water_temp_tips(m) \o wave_height_tips(m) \o wind_speed_tips(w)
    \o uv_index_tips(w) \o weather_code_tips(w)

---------------------------------------------------------------------------
(* lib/swim_score.py: _compute_verdict, _generate_summary, _factor_name *)

\* no_count and maybe_count: the factors under a key of SAFETY_FACTORS whose
\* verdict is v
verdict_count(factors, v) ==
    Cardinality({key \in DOMAIN factors :
                    key \in SAFETY_FACTORS /\ factors[key].verdict = v})

\* _compute_verdict without the escalation of two MAYBE to NO
_compute_verdict_no_escalation(factors) ==
    IF verdict_count(factors, NO) >= 1 THEN NO
    ELSE IF verdict_count(factors, MAYBE) >= 1 THEN MAYBE
    ELSE YES

\* _compute_verdict that closes the beach at three MAYBE, not at two
_compute_verdict_three_flags(factors) ==
    IF verdict_count(factors, NO) >= 1 THEN NO
    ELSE IF verdict_count(factors, MAYBE) >= 3 THEN NO
    ELSE IF verdict_count(factors, MAYBE) >= 1 THEN MAYBE
    ELSE YES

\* _compute_verdict that tests maybe_count == 2 where the code has >= 2
_compute_verdict_exactly_two(factors) ==
    IF verdict_count(factors, NO) >= 1 THEN NO
    ELSE IF verdict_count(factors, MAYBE) = 2 THEN NO
    ELSE IF verdict_count(factors, MAYBE) = 1 THEN MAYBE
    ELSE YES

_compute_verdict(factors) ==
    IF verdict_count(factors, NO) >= 1 THEN NO
    ELSE IF verdict_count(factors, MAYBE) >= 2 THEN NO
    ELSE IF verdict_count(factors, MAYBE) = 1 THEN MAYBE
    ELSE YES

_factor_name(key) ==
    IF key = "wave_height" THEN "waves"
    ELSE IF key = "wind_speed" THEN "wind"
    ELSE IF key = "precipitation" THEN "rain"
    ELSE IF key = "weather_code" THEN "weather"
    ELSE key

\* str.lower() on the labels a safety factor can carry
LowerTable ==
    ("Glassy" :> "glassy") @@ ("Calm" :> "calm") @@ ("Slight" :> "slight") @@
    ("Moderate" :> "moderate") @@ ("Rough" :> "rough") @@
    ("Very Rough" :> "very rough") @@ ("Dangerous" :> "dangerous") @@
    ("Light Breeze" :> "light breeze") @@ ("Strong" :> "strong") @@
    ("Very Strong" :> "very strong") @@ ("Extreme" :> "extreme") @@
    ("None" :> "none") @@ ("Light Rain" :> "light rain") @@
    ("Moderate Rain" :> "moderate rain") @@ ("Heavy Rain" :> "heavy rain") @@
    ("Torrential" :> "torrential") @@ ("Clear sky" :> "clear sky") @@
    ("Mainly clear" :> "mainly clear") @@
    ("Partly cloudy" :> "partly cloudy") @@ ("Overcast" :> "overcast") @@
    ("Foggy" :> "foggy") @@
    ("Depositing rime fog" :> "depositing rime fog") @@
    ("Light drizzle" :> "light drizzle") @@
    ("Moderate drizzle" :> "moderate drizzle") @@
    ("Dense drizzle" :> "dense drizzle") @@
    ("Light freezing drizzle" :> "light freezing drizzle") @@
    ("Dense freezing drizzle" :> "dense freezing drizzle") @@
    ("Slight rain" :> "slight rain") @@
    ("Moderate rain" :> "moderate rain") @@ ("Heavy rain" :> "heavy rain") @@
    ("Light freezing rain" :> "light freezing rain") @@
    ("Heavy freezing rain" :> "heavy freezing rain") @@
    ("Slight snow fall" :> "slight snow fall") @@
    ("Moderate snow fall" :> "moderate snow fall") @@
    ("Heavy snow fall" :> "heavy snow fall") @@
    ("Snow grains" :> "snow grains") @@
    ("Slight rain showers" :> "slight rain showers") @@
    ("Moderate rain showers" :> "moderate rain showers") @@
    ("Violent rain showers" :> "violent rain showers") @@
    ("Slight snow showers" :> "slight snow showers") @@
    ("Heavy snow showers" :> "heavy snow showers") @@
    ("Thunderstorm" :> "thunderstorm") @@
    ("Thunderstorm with slight hail" :> "thunderstorm with slight hail") @@
    ("Thunderstorm with heavy hail" :> "thunderstorm with heavy hail") @@
    ("Unknown" :> "unknown")

Lower(label) == LowerTable[label]

\* ", ".join(items)
RECURSIVE Join(_)
Join(items) ==
    IF Len(items) = 0 THEN ""
    ELSE IF Len(items) = 1 THEN items[1]
    ELSE items[1] \o ", " \o Join(Tail(items))

\* items[:n]
Prefix(items, n) == SubSeq(items, 1, Min(n, Len(items)))

\* "for key in SAFETY_FACTORS" from position i of the iteration order on:
\* one item per factor whose verdict is among wanted
RECURSIVE summary_items(_, _, _, _)
summary_items(factors, keys, wanted, i) ==
    IF i > Len(keys) THEN << >>
    ELSE LET key == keys[i]
             rest == summary_items(factors, keys, wanted, i + 1)
         IN  IF key \in DOMAIN factors /\ factors[key].verdict \in wanted
             THEN <<Lower(factors[key].label) \o " " \o _factor_name(key)>>
                  \o rest
             ELSE rest

\* _generate_summary that lists every flagged factor of a closed beach
_generate_summary_uncapped(verdict, factors) ==
    IF verdict = YES THEN "Beach is open. Go swim!"
    ELSE IF verdict = MAYBE
    THEN LET issues == summary_items(factors, order, {MAYBE}, 1)
         IN  IF Len(issues) > 0
             THEN "Swim with caution: " \o Join(issues) \o "."
             ELSE "Conditions are mixed. Swim with caution."
    ELSE LET dangers == summary_items(factors, order, {NO, MAYBE}, 1)
         IN  IF Len(dangers) > 0
             THEN "Beach closed: " \o Join(dangers) \o "."
             ELSE "Not safe to swim."

\* _generate_summary that keeps the last two flagged factors of a closed
\* beach, dangers[-2:], where the code keeps the first two
_generate_summary_last_two(verdict, factors) ==
    IF verdict = YES THEN "Beach is open. Go swim!"
    ELSE IF verdict = MAYBE
    THEN LET issues == summary_items(factors, order, {MAYBE}, 1)
         IN  IF Len(issues) > 0
             THEN "Swim with caution: " \o Join(issues) \o "."
             ELSE "Conditions are mixed. Swim with caution."
    ELSE LET dangers == summary_items(factors, order, {NO, MAYBE}, 1)
         IN  IF Len(dangers) > 0
             THEN "Beach closed: "
                  \o Join(SubSeq(dangers, Max(1, Len(dangers) - 1),
                                 Len(dangers)))
                  \o "."
             ELSE "Not safe to swim."

\* _generate_summary that lists only the NO factors of a closed beach
_generate_summary_no_only(verdict, factors) ==
    IF verdict = YES THEN "Beach is open. Go swim!"
    ELSE IF verdict = MAYBE
    THEN LET issues == summary_items(factors, order, {MAYBE}, 1)
         IN  IF Len(issues) > 0
             THEN "Swim with caution: " \o Join(issues) \o "."
             ELSE "Conditions are mixed. Swim with caution."
    ELSE LET dangers == summary_items(factors, order, {NO}, 1)
         IN  IF Len(dangers) > 0
             THEN "Beach closed: " \o Join(Prefix(dangers, 2)) \o "."
             ELSE "Not safe to swim."

\* the set SAFETY_FACTORS is iterated in the order this process gives it
_generate_summary(verdict, factors) ==
    IF verdict = YES THEN "Beach is open. Go swim!"
    ELSE IF verdict = MAYBE
    THEN LET issues == summary_items(factors, order, {MAYBE}, 1)
         IN  IF Len(issues) > 0
             THEN "Swim with caution: " \o Join(issues) \o "."
             ELSE "Conditions are mixed. Swim with caution."
    ELSE LET dangers == summary_items(factors, order, {NO, MAYBE}, 1)
         IN  IF Len(dangers) > 0
             THEN "Beach closed: " \o Join(Prefix(dangers, 2)) \o "."
             ELSE "Not safe to swim."

\* TypeErrorAt without the guards of the code: every operation is reached
TypeErrorAt_unguarded(reached, operand) == operand = None

\* Python raises TypeError when None is compared with a number, handed to
\* int() or divided: an operation raises when the code reaches it with None
TypeErrorAt(reached, operand) == reached /\ operand = None

\* the operations of evaluate_conditions and _classify on a measurement:
\* <<operation, the condition under which the code reaches it, operand>>
measurement_sites(m, w) ==
    LET water_temp == Get(m, "sea_surface_temp", None)
        wave_height == Get(m, "wave_height", None)
        wind_speed == Get(w, "wind_speed", None)
        uv_index == Get(w, "uv_index", None)
        precip == Num(OrZero(Get(w, "precipitation", Num(0))))
    IN  {<<"_classify(water_temp): value < upper", water_temp # None,
           water_temp>>,
         <<"_temp_bar(water_temp)", water_temp # None, water_temp>>,
         <<"water_temp < 15", water_temp # None, water_temp>>,
         <<"_classify(wave_height): value < upper", wave_height # None,
           wave_height>>,
         <<"_wave_bar(wave_height)", wave_height # None, wave_height>>,
         <<"wave_height >= 2.5", wave_height # None, wave_height>>,
         <<"_classify(wind_speed): value < upper", wind_speed # None,
           wind_speed>>,
         <<"_wind_bar(wind_speed)", wind_speed # None, wind_speed>>,
         <<"wind_speed >= 40", wind_speed # None, wind_speed>>,
         <<"_classify(uv_index): value < upper", uv_index # None, uv_index>>,
         <<"int(uv_index)", uv_index # None, uv_index>>,
         <<"uv_index >= 8", uv_index # None, uv_index>>,
         <<"_classify(precip): value < upper", precip # None, precip>>,
         <<"int(precip)", TRUE, precip>>}

\* the operations of one call that raise
raising_sites(m, w) ==
    {s[1] : s \in {t \in measurement_sites(m, w) : TypeErrorAt(t[2], t[3])}}

\* what a call that raises leaves its caller with
Raised(exception) == [raised |-> exception]

evaluate_conditions(m, w) ==
    LET factors == build_factors(m, w)
        tips == build_tips(m, w)
        verdict == _compute_verdict(factors)
        summary == _generate_summary(verdict, factors)
    IN  [verdict |-> verdict, factors |-> factors, tips |-> tips,
         summary |-> summary]

\* the call evaluate_conditions(marine, weather) as its caller sees it
call_evaluate_conditions(m, w) ==
    IF raising_sites(m, w) # {} THEN Raised("TypeError")
    ELSE evaluate_conditions(m, w)

---------------------------------------------------------------------------
(* The readings the model hands to evaluate_conditions *)

\* a field of a reading is missing, None or a number
Missing == <<0, 0>>

Fields ==
    {"sea_surface_temp", "wave_height", "wind_speed", "uv_index",
     "precipitation", "weather_code"}

MarineKeys == {"sea_surface_temp", "wave_height"}
WeatherKeys == {"wind_speed", "uv_index", "precipitation", "weather_code"}

Nums(S) == {Num(v) : v \in S}

\* the values a field is tried with: both sides of every threshold that
\* decides a verdict or a tip, and the values of the test scenarios
Choices ==
    [sea_surface_temp |->
        {Missing, None} \cup Nums({-10, 80, 149, 150, 179, 180, 260}),
     wave_height |->
        {Missing, None}
        \cup Nums({3, 4, 9, 10, 14, 15, 16, 19, 20, 24, 25, 35}),
     wind_speed |->
        {Missing, None}
        \cup Nums({50, 80, 100, 199, 200, 350, 399, 400, 550}),
     uv_index |->
        {Missing, None}
        \cup Nums({-10, 20, 29, 30, 50, 59, 60, 79, 80, 90, 110}),
     precipitation |->
        {Missing, None} \cup Nums({-10, 0, 1, 19, 20, 30, 49, 50, 150}),
     weather_code |->
        {Missing, None} \cup Nums({0, 1, 4, 56, 61, 86, 95, 96, 99})]

\* one value per class of each field, tried in every combination
CoreChoices ==
    [sea_surface_temp |-> {None} \cup Nums({80, 260}),
     wave_height |-> {None} \cup Nums({4, 16, 35}),
     wind_speed |-> {None} \cup Nums({100, 350, 550}),
     uv_index |-> {None} \cup Nums({50, 110}),
     precipitation |-> {Missing} \cup Nums({0, 30, 150}),
     weather_code |-> {Missing} \cup Nums({1, 61, 95})]

\* the defaults of _make_marine and _make_weather in tests/test_swim_score.py
Nominal ==
    [sea_surface_temp |-> Num(260), wave_height |-> Num(4),
     wind_speed |-> Num(100), uv_index |-> Num(50),
     precipitation |-> Num(0), weather_code |-> Num(1)]

\* how many fields of a request are replaced at once by a value of Choices
MaxOverrides == 2

AllChoices == UNION {Choices[f] : f \in Fields}

\* the nominal request with the fields F replaced
OverridesOf(F) ==
    {[f \in Fields |-> IF f \in F THEN g[f] ELSE Nominal[f]] :
        g \in {h \in [F -> AllChoices] : \A f \in F : h[f] \in Choices[f]}}

OverrideRequests ==
    UNION {OverridesOf(F) :
              F \in {G \in SUBSET Fields : Cardinality(G) <= MaxOverrides}}

CoreRequests ==
    {[sea_surface_temp |-> t, wave_height |-> h, wind_speed |-> s,
      uv_index |-> u, precipitation |-> p, weather_code |-> c] :
        t \in CoreChoices.sea_surface_temp, h \in CoreChoices.wave_height,
        s \in CoreChoices.wind_speed, u \in CoreChoices.uv_index,
        p \in CoreChoices.precipitation, c \in CoreChoices.weather_code}

\* every field missing, None or nominal, in every combination: from the
\* two empty dicts to the nominal request
PresenceOf(f) == {Missing, None, Nominal[f]}

PresenceRequests ==
    {[sea_surface_temp |-> t, wave_height |-> h, wind_speed |-> s,
      uv_index |-> u, precipitation |-> p, weather_code |-> c] :
        t \in PresenceOf("sea_surface_temp"), h \in PresenceOf("wave_height"),
        s \in PresenceOf("wind_speed"), u \in PresenceOf("uv_index"),
        p \in PresenceOf("precipitation"), c \in PresenceOf("weather_code")}

Requests == CoreRequests \cup OverrideRequests \cup PresenceRequests

\* the dict made of the fields of a request that are not missing
Reading(req, keys) == [k \in {f \in keys : req[f] # Missing} |-> req[k]]

\* the iteration orders a Python set of four strings can have
Orders ==
    {o \in [1..4 -> SAFETY_FACTORS] : \A i, j \in 1..4 : o[i] = o[j] => i = j}

NoResult == [none |-> TRUE]
NoClass == << >>

---------------------------------------------------------------------------
(* Evaluating one request *)

IdleClassify == cvalue = None /\ ctable = "water_temp" /\ cresult = NoClass

NoResponse == [none |-> TRUE]
NoEgg == [none |-> TRUE]

\* a call that may run beside its caller: not made, running, returned a
\* value or raised an exception
NoCall == [state |-> "none"]
Running == [state |-> "running"]
Returned(value) == [state |-> "returned", value |-> value]
Raising(exception) == [state |-> "raised", exception |-> exception]

IdleApp ==
    /\ handler = "none"
    /\ fmt = "none"
    /\ geo = NoCall
    /\ marine_future = NoCall
    /\ weather_future = NoCall
    /\ response = NoResponse

IdleThreads == calls = << >> /\ frames = << >>

IdleEgg == location = << >> /\ egg = NoEgg

Init ==
    /\ order \in Orders
    /\ \E req \in Requests :
          /\ marine = Reading(req, MarineKeys)
          /\ weather = Reading(req, WeatherKeys)
    /\ result = NoResult
    /\ last = NoResult
    /\ pc = "ready"
    /\ IdleClassify
    /\ IdleApp
    /\ IdleThreads
    /\ IdleEgg

\* score = evaluate_conditions(marine, weather)
Evaluate ==
    /\ pc = "ready"
    /\ result' = call_evaluate_conditions(marine, weather)
    /\ pc' = "done"
    /\ UNCHANGED <<order, marine, weather, last, classVars, appVars, threadVars, eggVars>>

Next == Evaluate

Spec == Init /\ [][Next]_vars

---------------------------------------------------------------------------
(* Calling evaluate_conditions again with the same readings: in the same    *)
(* process, or in a process started anew, whose string hashes, and with     *)
(* them the iteration order of SAFETY_FACTORS, are drawn afresh             *)

\* every combination of the safety fields, the other two nominal
RepeatRequests ==
    {req \in CoreRequests :
        /\ req.sea_surface_temp = Nominal.sea_surface_temp
        /\ req.uv_index = Nominal.uv_index}

InitRepeat ==
    /\ order \in Orders
    /\ \E req \in RepeatRequests :
          /\ marine = Reading(req, MarineKeys)
          /\ weather = Reading(req, WeatherKeys)
    /\ result = NoResult
    /\ last = NoResult
    /\ pc = "ready"
    /\ IdleClassify
    /\ IdleApp
    /\ IdleThreads
    /\ IdleEgg

\* the same process is asked again
CallAgain ==
    /\ pc = "done"
    /\ last' = result
    /\ result' = NoResult
    /\ pc' = "ready"
    /\ UNCHANGED <<order, marine, weather, classVars, appVars, threadVars, eggVars>>

\* another process (a restart, another worker) is asked
Restart ==
    /\ pc = "done"
    /\ order' \in Orders
    /\ last' = result
    /\ result' = NoResult
    /\ pc' = "ready"
    /\ UNCHANGED <<marine, weather, classVars, appVars, threadVars, eggVars>>

NextRepeat == Evaluate \/ CallAgain \/ Restart

SpecRepeat == InitRepeat /\ [][NextRepeat]_vars

---------------------------------------------------------------------------
(* Calling _classify alone *)

\* the largest value, in tenths, handed to _classify
MaxClassifyValue == 510

ClassifyValues == {None} \cup Nums(-10..MaxClassifyValue)

IdleEvaluate ==
    /\ order = << >>
    /\ marine = << >>
    /\ weather = << >>
    /\ result = NoResult
    /\ last = NoResult
    /\ pc = "idle"

InitClassify ==
    /\ cvalue \in ClassifyValues
    /\ ctable \in TableNames
    /\ cresult = NoClass
    /\ IdleEvaluate
    /\ IdleApp
    /\ IdleThreads
    /\ IdleEgg

Classify ==
    /\ cresult = NoClass
    /\ cresult' = _classify(cvalue, Tables[ctable])
    /\ UNCHANGED <<cvalue, ctable, evalVars, appVars, threadVars, eggVars>>

NextClassify == Classify

SpecClassify == InitClassify /\ [][NextClassify]_vars

---------------------------------------------------------------------------
(* What the claims read *)

Done == pc = "done"

\* the four safety factors, by name
SafetyKeys == {"wave_height", "wind_speed", "precipitation", "weather_code"}

VerdictOf(key) == result.factors[key].verdict

\* the reading d holds a number under key
Present(d, key) == key \in DOMAIN d /\ d[key] # None

\* the request being evaluated is req
IsRequest(req) ==
    marine = Reading(req, MarineKeys) /\ weather = Reading(req, WeatherKeys)

\* the nominal request with one or two fields replaced
With1(f, v) == [Nominal EXCEPT ![f] = Num(v)]
With2(f, v, g, w) == [Nominal EXCEPT ![f] = Num(v), ![g] = Num(w)]

\* the reading d with key removed
Without(d, key) == [k \in DOMAIN d \ {key} |-> d[k]]

\* the reading d with None under key
WithNone(d, key) == [k \in DOMAIN d \cup {key} |-> IF k = key THEN None ELSE d[k]]

Range(seq) == {seq[i] : i \in 1..Len(seq)}

---------------------------------------------------------------------------
\* C1: the overall verdict follows from the verdicts of wave_height,
\* wind_speed, precipitation and weather_code by precedence: NO if any of
\* them is NO; otherwise NO if at least two are MAYBE; otherwise MAYBE if
\* exactly one is MAYBE; otherwise YES.
C1_VerdictPrecedence ==
    Done =>
        LET anyNo == \E k \in SafetyKeys : VerdictOf(k) = NO
            maybes == Cardinality({k \in SafetyKeys : VerdictOf(k) = MAYBE})
        IN  /\ anyNo => result.verdict = NO
            /\ (~anyNo /\ maybes >= 2) => result.verdict = NO
            /\ (~anyNo /\ maybes = 1) => result.verdict = MAYBE
            /\ (~anyNo /\ maybes = 0) => result.verdict = YES

\* two yellow flags and no red one: the escalation to NO
C1_Witness ==
    /\ Done
    /\ \A k \in SafetyKeys : VerdictOf(k) # NO
    /\ Cardinality({k \in SafetyKeys : VerdictOf(k) = MAYBE}) = 2
    /\ result.verdict = NO

---------------------------------------------------------------------------
\* C2: the overall verdict does not depend on sea_surface_temp and uv_index:
\* it is the verdict of the same readings with both removed, so any two
\* requests that differ only in these two fields get the same verdict; both
\* informational factors carry no verdict; and four safety factors at YES
\* give YES.
C2_InformationalIsolation ==
    Done =>
        /\ result.verdict =
              evaluate_conditions(Without(marine, "sea_surface_temp"),
                                  Without(weather, "uv_index")).verdict
        /\ VerdictOf("water_temp") = NoneVerdict
        /\ VerdictOf("uv_index") = NoneVerdict
        /\ (\A k \in SafetyKeys : VerdictOf(k) = YES) => result.verdict = YES

\* water at 8.0 C under a UV index of 11, and the beach is open
C2_Witness ==
    /\ Done
    /\ Present(marine, "sea_surface_temp") /\ marine.sea_surface_temp = Num(80)
    /\ Present(weather, "uv_index") /\ weather.uv_index = Num(110)
    /\ \A k \in SafetyKeys : VerdictOf(k) = YES
    /\ result.verdict = YES

---------------------------------------------------------------------------
\* C3: in every threshold table, a value equal to the upper bound of an entry
\* other than the last is classified as the next entry (label and verdict);
\* a wave height of exactly 1.5 m is "Rough"/MAYBE.
C3_BoundaryIsNextBucket ==
    cresult # NoClass =>
        LET thresholds == Tables[ctable]
        IN  /\ \A i \in 1..(Len(thresholds) - 1) :
                  cvalue = thresholds[i][1] =>
                      cresult = <<thresholds[i + 1][2], thresholds[i + 1][3]>>
            /\ (ctable = "wave_height" /\ cvalue = Num(15)) =>
                  cresult = <<"Rough", MAYBE>>

\* _classify was called with a wave height of exactly 1.5 m
C3_Witness ==
    /\ ctable = "wave_height"
    /\ cvalue = Num(15)
    /\ cresult = <<"Rough", MAYBE>>

---------------------------------------------------------------------------
\* C4 as stated: for each of the six factors, an absent measurement (key
\* missing or None) gives the factor the label "Unknown" and no verdict.
C4_AbsentIsUnknown_AsStated ==
    Done =>
        /\ \A k \in {"sea_surface_temp", "wave_height"} :
              ~Present(marine, k) =>
                  LET f == result.factors[IF k = "sea_surface_temp"
                                          THEN "water_temp" ELSE k]
                  IN  f.label = "Unknown" /\ f.verdict = NoneVerdict
        /\ \A k \in WeatherKeys :
              ~Present(weather, k) =>
                  /\ result.factors[k].label = "Unknown"
                  /\ result.factors[k].verdict = NoneVerdict

\* C4 as amended: an absent water temperature, wave height, wind speed or UV
\* index gives its factor the label "Unknown" and no verdict; an absent
\* precipitation or weather code is scored as 0 (labels "None" and "Clear
\* sky", verdict YES); and when the verdict is YES it stays YES with any one
\* measurement made absent.
C4_AbsentIsNeutral ==
    Done =>
        /\ \A k \in {"sea_surface_temp", "wave_height"} :
              ~Present(marine, k) =>
                  LET f == result.factors[IF k = "sea_surface_temp"
                                          THEN "water_temp" ELSE k]
                  IN  f.label = "Unknown" /\ f.verdict = NoneVerdict
        /\ \A k \in {"wind_speed", "uv_index"} :
              ~Present(weather, k) =>
                  /\ result.factors[k].label = "Unknown"
                  /\ result.factors[k].verdict = NoneVerdict
        /\ ~Present(weather, "precipitation") =>
              /\ result.factors["precipitation"].value = Num(0)
              /\ result.factors["precipitation"].label = "None"
              /\ result.factors["precipitation"].verdict = YES
        /\ ~Present(weather, "weather_code") =>
              /\ result.factors["weather_code"].value = Num(0)
              /\ result.factors["weather_code"].label = "Clear sky"
              /\ result.factors["weather_code"].verdict = YES
        /\ result.verdict = YES =>
              /\ \A k \in MarineKeys :
                    /\ evaluate_conditions(Without(marine, k), weather).verdict
                          = YES
                    /\ evaluate_conditions(WithNone(marine, k), weather).verdict
                          = YES
              /\ \A k \in WeatherKeys :
                    /\ evaluate_conditions(marine, Without(weather, k)).verdict
                          = YES
                    /\ evaluate_conditions(marine, WithNone(weather, k)).verdict
                          = YES

\* no wave height and no precipitation in the readings, and the beach is open
C4_Witness ==
    /\ Done
    /\ ~Present(marine, "wave_height")
    /\ ~Present(weather, "precipitation")
    /\ Present(weather, "wind_speed")
    /\ result.factors["wave_height"].label = "Unknown"
    /\ result.factors["precipitation"].label = "None"
    /\ result.verdict = YES

---------------------------------------------------------------------------
\* C5: a weather code among 95, 96, 99 gives the weather_code factor the
\* verdict NO and the request the verdict NO, whatever the other factors; any
\* other code of the warning set (61 among them) gives the factor MAYBE; every
\* other code, also one no table holds, gives it YES (1 among them).
WarningCodes ==
    {51, 53, 55, 61, 63, 65, 66, 67, 71, 73, 75, 77, 80, 81, 82, 85, 86}

C5_WeatherCodeVerdict ==
    (Done /\ Present(weather, "weather_code")) =>
        LET code == weather.weather_code[1]
        IN  /\ code \in {95, 96, 99} =>
                  VerdictOf("weather_code") = NO /\ result.verdict = NO
            /\ (code \notin {95, 96, 99} /\ code \in WarningCodes) =>
                  VerdictOf("weather_code") = MAYBE
            /\ (code \notin {95, 96, 99} /\ code \notin WarningCodes) =>
                  VerdictOf("weather_code") = YES
            /\ code = 61 => VerdictOf("weather_code") = MAYBE
            /\ code = 1 => VerdictOf("weather_code") = YES

\* a thunderstorm over an otherwise open beach
C5_Witness ==
    /\ Done
    /\ Present(weather, "weather_code") /\ weather.weather_code = Num(95)
    /\ \A k \in SafetyKeys \ {"weather_code"} : VerdictOf(k) = YES
    /\ VerdictOf("weather_code") = NO
    /\ result.verdict = NO

---------------------------------------------------------------------------
\* C6: a present wave height is YES below 1.0 m, MAYBE from 1.0 m and below
\* 2.0 m, NO from 2.0 m; a present wind speed is YES below 20 km/h, MAYBE from
\* 20 and below 40, NO from 40; a present precipitation is YES below 2.0 mm,
\* MAYBE from 2.0 and below 5.0, NO from 5.0.  With everything else nominal:
\* 3.5 m, 55 km/h and 15.0 mm each give NO, 1.6 m alone and 35 km/h alone give
\* MAYBE, 1.6 m with 35 km/h gives NO, 0.3 m with 8 km/h gives YES.
Banded(v, maybeFrom, noFrom) ==
    IF v < maybeFrom THEN YES ELSE IF v < noFrom THEN MAYBE ELSE NO

C6_NumericVerdicts ==
    Done =>
        /\ Present(marine, "wave_height") =>
              VerdictOf("wave_height") = Banded(marine.wave_height[1], 10, 20)
        /\ Present(weather, "wind_speed") =>
              VerdictOf("wind_speed") = Banded(weather.wind_speed[1], 200, 400)
        /\ Present(weather, "precipitation") =>
              VerdictOf("precipitation")
                 = Banded(weather.precipitation[1], 20, 50)
        /\ IsRequest(With1("wave_height", 35)) =>
              result.verdict = NO /\ VerdictOf("wave_height") = NO
        /\ IsRequest(With1("wind_speed", 550)) => result.verdict = NO
        /\ IsRequest(With1("precipitation", 150)) => result.verdict = NO
        /\ IsRequest(With1("wave_height", 16)) => result.verdict = MAYBE
        /\ IsRequest(With1("wind_speed", 350)) => result.verdict = MAYBE
        /\ IsRequest(With2("wave_height", 16, "wind_speed", 350)) =>
              result.verdict = NO
        /\ IsRequest(With2("wave_height", 3, "wind_speed", 80)) =>
              result.verdict = YES

\* waves of 1.6 m under a wind of 35 km/h close the beach
C6_Witness ==
    /\ Done
    /\ IsRequest(With2("wave_height", 16, "wind_speed", 350))
    /\ VerdictOf("wave_height") = MAYBE
    /\ VerdictOf("wind_speed") = MAYBE
    /\ result.verdict = NO

---------------------------------------------------------------------------
\* C7: the tips come in the order water temperature, waves, wind, UV,
\* weather: of two tips of a result, the one of the earlier source is first.
WaterTips ==
    {"Water is very cold. Consider a wetsuit.",
     "Water is cold. A wetsuit may help."}

WaveTips ==
    {"Dangerous waves. Red flag conditions.",
     "Rough waves. Experienced swimmers only."}

WindTips == {"Strong winds create dangerous rip currents."}

UvTips ==
    {"Very high UV. Wear sunscreen SPF 50+ and reapply often.",
     "High UV. Wear sunscreen.",
     "Moderate UV. Sunscreen recommended."}

WeatherTips ==
    {"Dangerous weather: Thunderstorm. Beach closed.",
     "Dangerous weather: Thunderstorm with slight hail. Beach closed.",
     "Dangerous weather: Thunderstorm with heavy hail. Beach closed."}

TipSource(tip) ==
    IF tip \in WaterTips THEN 1
    ELSE IF tip \in WaveTips THEN 2
    ELSE IF tip \in WindTips THEN 3
    ELSE IF tip \in UvTips THEN 4
    ELSE IF tip \in WeatherTips THEN 5
    ELSE 0

C7_TipsInFixedOrder ==
    Done =>
        \A i, j \in 1..Len(result.tips) :
            i < j => TipSource(result.tips[i]) <= TipSource(result.tips[j])

\* a result with a tip of each of the five sources
C7_Witness ==
    /\ Done
    /\ Len(result.tips) = 5
    /\ \A i \in 1..5 : TipSource(result.tips[i]) = i

---------------------------------------------------------------------------
\* C8: each tip is in the result exactly under its condition on a present
\* measurement: very cold water below 15 C, cold water from 15 and below 18;
\* dangerous waves from 2.5 m, rough waves from 1.5 and below 2.5; strong wind
\* from 40 km/h; very high UV from 8, high UV from 6 and below 8, moderate UV
\* from 3 and below 6; dangerous weather for a code among 95, 96, 99.  Nothing
\* else is a tip, so an absent measurement and precipitation give none, and
\* the list is empty exactly when none of the conditions holds.
InRange(d, key, lo, hi) ==
    Present(d, key) /\ lo <= d[key][1] /\ d[key][1] < hi

AtLeast(d, key, lo) == Present(d, key) /\ lo <= d[key][1]

Below(d, key, hi) == Present(d, key) /\ d[key][1] < hi

HasTip(tip) == tip \in Range(result.tips)

C8_TipConditions ==
    Done =>
        /\ HasTip("Water is very cold. Consider a wetsuit.")
              <=> Below(marine, "sea_surface_temp", 150)
        /\ HasTip("Water is cold. A wetsuit may help.")
              <=> InRange(marine, "sea_surface_temp", 150, 180)
        /\ HasTip("Dangerous waves. Red flag conditions.")
              <=> AtLeast(marine, "wave_height", 25)
        /\ HasTip("Rough waves. Experienced swimmers only.")
              <=> InRange(marine, "wave_height", 15, 25)
        /\ HasTip("Strong winds create dangerous rip currents.")
              <=> AtLeast(weather, "wind_speed", 400)
        /\ HasTip("Very high UV. Wear sunscreen SPF 50+ and reapply often.")
              <=> AtLeast(weather, "uv_index", 80)
        /\ HasTip("High UV. Wear sunscreen.")
              <=> InRange(weather, "uv_index", 60, 80)
        /\ HasTip("Moderate UV. Sunscreen recommended.")
              <=> InRange(weather, "uv_index", 30, 60)
        /\ HasTip("Dangerous weather: Thunderstorm. Beach closed.")
              <=> InRange(weather, "weather_code", 95, 96)
        /\ HasTip("Dangerous weather: Thunderstorm with slight hail. Beach closed.")
              <=> InRange(weather, "weather_code", 96, 97)
        /\ HasTip("Dangerous weather: Thunderstorm with heavy hail. Beach closed.")
              <=> InRange(weather, "weather_code", 99, 100)
        /\ \A tip \in Range(result.tips) : TipSource(tip) # 0
        /\ result.tips = << >>
              <=> ~ \/ Below(marine, "sea_surface_temp", 180)
                    \/ AtLeast(marine, "wave_height", 15)
                    \/ AtLeast(weather, "wind_speed", 400)
                    \/ AtLeast(weather, "uv_index", 30)
                    \/ (Present(weather, "weather_code")
                        /\ weather.weather_code[1] \in {95, 96, 99})

\* waves of exactly 2.5 m under heavy rain: the dangerous-wave tip, and the
\* rain adds none
C8_Witness ==
    /\ Done
    /\ IsRequest(With2("wave_height", 25, "precipitation", 150))
    /\ result.tips = <<"Dangerous waves. Red flag conditions.",
                       "Moderate UV. Sunscreen recommended.">>

---------------------------------------------------------------------------
\* C9: two calls of evaluate_conditions with identical readings return
\* identical results (verdict, factors, tips and summary), whatever the
\* iteration order of SAFETY_FACTORS in the process that serves the call.
C9_RepeatSameResult ==
    (Done /\ last # NoResult) => result = last

---------------------------------------------------------------------------
\* C10: the summary is "Beach is open. Go swim!" for YES; "Swim with caution: "
\* and one "<label lowercased> <name>" item per safety factor at MAYBE for
\* MAYBE; "Beach closed: " and the first two at most of the items of the
\* safety factors at NO or MAYBE for NO; the names are waves, wind, rain and
\* weather.  Items are separated by ", " and closed by ".", and come in the
\* order in which the process iterates SAFETY_FACTORS.
SummaryName(key) ==
    CASE key = "wave_height" -> "waves"
      [] key = "wind_speed" -> "wind"
      [] key = "precipitation" -> "rain"
      [] key = "weather_code" -> "weather"

SummaryItem(key) ==
    LowerTable[result.factors[key].label] \o " " \o SummaryName(key)

\* the safety factors whose verdict is among wanted, in iteration order
Flagged(wanted) == SelectSeq(order, LAMBDA key : VerdictOf(key) \in wanted)

RECURSIVE ItemList(_)
ItemList(keys) ==
    IF Len(keys) = 1 THEN SummaryItem(keys[1])
    ELSE SummaryItem(keys[1]) \o ", " \o ItemList(Tail(keys))

C10_SummaryText ==
    Done =>
        /\ result.verdict = YES => result.summary = "Beach is open. Go swim!"
        /\ result.verdict = MAYBE =>
              /\ Len(Flagged({MAYBE})) >= 1
              /\ result.summary
                    = "Swim with caution: " \o ItemList(Flagged({MAYBE})) \o "."
        /\ result.verdict = NO =>
              LET dangers == Flagged({NO, MAYBE})
              IN  /\ Len(dangers) >= 1
                  /\ result.summary
                        = "Beach closed: "
                          \o ItemList(IF Len(dangers) <= 2 THEN dangers
                                      ELSE SubSeq(dangers, 1, 2))
                          \o "."

\* a closed beach with three factors flagged, two of them named
C10_Witness ==
    /\ Done
    /\ result.verdict = NO
    /\ Len(Flagged({NO, MAYBE})) = 3
    /\ VerdictOf("wave_height") = MAYBE
    /\ VerdictOf("wind_speed") = NO
    /\ VerdictOf("precipitation") = MAYBE
    /\ order[1] = "precipitation" /\ order[2] = "wave_height"
    /\ result.summary = "Beach closed: moderate rain rain, rough waves."


---------------------------------------------------------------------------
(* C11  evaluate_conditions never raises and always returns the full result *)

FactorKeys ==
    {"water_temp", "wave_height", "wind_speed", "uv_index", "precipitation",
     "weather_code"}

\* C11: whatever fields of the two readings are present, None or missing
\* (both readings empty included), the call raises nothing and returns a
\* verdict among YES, MAYBE and NO, a list of tips, a summary string and
\* factors under exactly the six keys, each with value, label, verdict, bar.
C11_NeverRaisesFullResult ==
    Done =>
        /\ result # Raised("TypeError")
        /\ DOMAIN result = {"verdict", "factors", "tips", "summary"}
        /\ result.verdict \in {YES, MAYBE, NO}
        /\ result.tips \in Seq(STRING)
        /\ result.summary \in STRING
        /\ DOMAIN result.factors = FactorKeys
        /\ \A k \in FactorKeys :
              {"value", "label", "verdict", "bar"} \subseteq
                  DOMAIN result.factors[k]

\* both readings are empty dicts and the call returned an open beach
C11_Witness ==
    /\ Done
    /\ DOMAIN marine = {}
    /\ DOMAIN weather = {}
    /\ result # Raised("TypeError")
    /\ result.verdict = YES
    /\ result.tips = << >>


---------------------------------------------------------------------------
(* C12  The bar of a factor *)

\* C12: for every input, the bar of each of the six factors is an integer
\* from 0 to 10.
C12_BarsInRange ==
    Done => \A k \in FactorKeys : result.factors[k].bar \in 0..10


---------------------------------------------------------------------------
(* get_easter_egg of lib/easter_eggs.py.  A string handed to it is the      *)
(* tuple of its characters: "Paris" is <<"P", "a", "r", "i", "s">>.         *)

\* INLAND_JOKES: the curated entries, keyed by the lowercase city name
INLAND_JOKES ==
    (<<"p", "a", "r", "i", "s">> :>
        [water |-> "La Seine",
         joke |->
            "The Seine has improved... technically. The fish are back. " \o
            "They even held Olympic swimming here. You, however, should" \o
            " probably stick to the pools.",
         suggestion |-> "Nice"]) @@
    (<<"l", "o", "n", "d", "o", "n">> :>
        [water |-> "The Thames",
         joke |->
            "The Thames was once declared biologically dead. It's " \o
            "recovered since, but 'recovered' is doing a lot of heavy " \o
            "lifting. Seals live in it now. You should not.",
         suggestion |-> "Brighton"]) @@
    (<<"c", "a", "i", "r", "o">> :>
        [water |-> "The Nile",
         joke |->
            "The Nile has sustained civilization for 5,000 years. " \o
            "Swimming in it, however, has never been the move. " \o
            "Crocodiles, currents, and questionable water quality -- " \o
            "pick your adventure.",
         suggestion |-> "Hurghada"]) @@
    (<<"r", "o", "m", "e">> :>
        [water |-> "The Tiber",
         joke |->
            "Legend says Romulus and Remus were thrown into the Tiber " \o
            "and survived. They were also raised by a wolf, so maybe " \o
            "don't use them as role models. The beach at Ostia is 30 " \o
            "minutes away.",
         suggestion |-> "Ostia"]) @@
    (<<"b", "u", "d", "a", "p", "e", "s", "t">> :>
        [water |-> "The Danube",
         joke |->
            "The Blue Danube is famously not blue. Strauss lied, and " \o
            "the river is about as swimmable as a Viennese waltz is " \o
            "relaxing. Try the thermal baths instead -- Budapest has " \o
            "120 of them.",
         suggestion |-> "Split"]) @@
    (<<"v", "i", "e", "n", "n", "a">> :>
        [water |-> "The Danube",
         joke |->
            "Strauss called it the Blue Danube. He was being generous. " \o
            "The Alte Donau (Old Danube) is actually swimmable in " \o
            "summer though -- the Viennese have been keeping that " \o
            "secret for decades.",
         suggestion |-> "Split"]) @@
    (<<"n", "e", "w", " ", "y", "o", "r", "k">> :>
        [water |-> "The Hudson",
         joke |->
            "People have swum in the Hudson. People have also regretted" \o
            " it. The East River isn't actually a river -- it's a tidal" \o
            " strait, and it would like to keep you out.",
         suggestion |-> "Miami"]) @@
    (<<"b", "e", "r", "l", "i", "n">> :>
        [water |-> "The Spree",
         joke |->
            "Berliners swim in the Spree every summer. The city has " \o
            "been trying to make it officially safe for years. 'Trying'" \o
            " is the key word.",
         suggestion |-> "Barcelona"]) @@
    (<<"a", "m", "s", "t", "e", "r", "d", "a", "m">> :>
        [water |-> "The Canals",
         joke |->
            "The canals look charming from a boat. From inside them, " \o
            "less so. There are roughly 12,000 bikes at the bottom. " \o
            "Watch your step.",
         suggestion |-> "Scheveningen"]) @@
    (<<"p", "r", "a", "g", "u", "e">> :>
        [water |-> "The Vltava",
         joke |->
            "Smetana wrote a whole symphony about the Vltava. Beautiful" \o
            " music. Less beautiful water. The river is better admired " \o
            "from Charles Bridge with a beer in hand.",
         suggestion |-> "Split"]) @@
    (<<"d", "u", "b", "l", "i", "n">> :>
        [water |-> "The Liffey",
         joke |->
            "The Liffey runs through the heart of Dublin. Dubliners " \o
            "have a saying: 'Don't fall in.' That's the whole saying. " \o
            "Take the DART to Sandycove instead.",
         suggestion |-> "Galway"]) @@
    (<<"b", "a", "n", "g", "k", "o", "k">> :>
        [water |-> "The Chao Phraya",
         joke |->
            "The Chao Phraya is a highway of longtail boats, ferries, " \o
            "and floating markets. Swimming in it is technically " \o
            "possible in the way that anything is technically possible." \o
            " Pattaya is two hours away.",
         suggestion |-> "Phuket"]) @@
    (<<"m", "o", "s", "c", "o", "w">> :>
        [water |-> "The Moskva",
         joke |->
            "The Moskva River has outdoor swimming pools nearby. The " \o
            "river itself? Nyet. Even in summer, Muscovites know " \o
            "better.",
         suggestion |-> "Sochi"]) @@
    (<<"m", "a", "d", "r", "i", "d">> :>
        [water |-> "The Manzanares",
         joke |->
            "The Manzanares is more of a creek with ambitions. Mark " \o
            "Twain allegedly said the saddest thing in Madrid was the " \o
            "river. Valencia's beach is a quick train ride away.",
         suggestion |-> "Valencia"]) @@
    (<<"t", "o", "k", "y", "o">> :>
        [water |-> "The Sumida",
         joke |->
            "The Sumida River hosts spectacular fireworks festivals. " \o
            "Swimming is not one of the festivities. Shonan Beach is an" \o
            " hour south -- the surfers will welcome you.",
         suggestion |-> "Kamakura"])

\* GENERIC_JOKES: the fallback entries, a list indexed from 0 in the code
GENERIC_JOKES ==
    <<[joke |->
        "No ocean here, but we admire the optimism. Swim.today " \o
        "needs waves, tides, and actual sea water to work its " \o
        "magic."],
      [joke |->
        "This is firmly landlocked territory. The nearest body of " \o
        "water is probably a fountain in a park. We'd check it, but" \o
        " our fish would judge us."],
      [joke |->
        "Our satellite-fish scanned the area. No ocean detected. If" \o
        " you squint at a puddle hard enough, it's almost the same " \o
        "thing."],
      [joke |->
        "The ocean is out there somewhere, just... not here. But " \o
        "hey, at least you don't have to worry about sharks."],
      [joke |->
        "We checked. Twice. Definitely no coast here. On the bright" \o
        " side, no jellyfish either."]>>

UpperCase ==
    <<"A", "B", "C", "D", "E", "F", "G", "H", "I", "J", "K", "L", "M",
      "N", "O", "P", "Q", "R", "S", "T", "U", "V", "W", "X", "Y", "Z">>

LowerCase ==
    <<"a", "b", "c", "d", "e", "f", "g", "h", "i", "j", "k", "l", "m",
      "n", "o", "p", "q", "r", "s", "t", "u", "v", "w", "x", "y", "z">>

\* the code points of the other characters a location is written with
Punctuation == (" " :> 32) @@ ("'" :> 39) @@ ("," :> 44) @@ ("-" :> 45)

\* the characters str.strip() removes, of those a location is written with
Whitespace == {" "}

IndexOf(c, letters) == CHOOSE i \in 1..Len(letters) : letters[i] = c

\* ord(c)
ord(c) ==
    IF c \in Range(UpperCase) THEN 64 + IndexOf(c, UpperCase)
    ELSE IF c \in Range(LowerCase) THEN 96 + IndexOf(c, LowerCase)
    ELSE Punctuation[c]

\* a lower() that leaves the string as it is
lower_unchanged(s) == s

\* str.lower()
lower(s) ==
    [i \in 1..Len(s) |->
        IF s[i] \in Range(UpperCase)
        THEN LowerCase[IndexOf(s[i], UpperCase)]
        ELSE s[i]]

\* location.split(",")[0]
RECURSIVE split_first(_)
split_first(s) ==
    IF Len(s) = 0 \/ Head(s) = "," THEN << >>
    ELSE <<Head(s)>> \o split_first(Tail(s))

RECURSIVE lstrip(_)
lstrip(s) ==
    IF Len(s) > 0 /\ Head(s) \in Whitespace THEN lstrip(Tail(s)) ELSE s

RECURSIVE rstrip(_)
rstrip(s) ==
    IF Len(s) > 0 /\ s[Len(s)] \in Whitespace
    THEN rstrip(SubSeq(s, 1, Len(s) - 1))
    ELSE s

\* str.strip()
strip(s) == rstrip(lstrip(s))

\* sum(ord(c) for c in city)
RECURSIVE sum_ord(_)
sum_ord(city) ==
    IF Len(city) = 0 THEN 0 ELSE ord(Head(city)) + sum_ord(Tail(city))

get_easter_egg(loc) ==
    LET city == lower(strip(split_first(loc)))
    IN  IF city \in DOMAIN INLAND_JOKES THEN INLAND_JOKES[city]
        ELSE LET idx == sum_ord(city) % Len(GENERIC_JOKES)
             IN  GENERIC_JOKES[idx + 1]

\* the locations of tests/test_easter_eggs.py and some more
NamedLocations ==
    {<<"P", "a", "r", "i", "s">>,
     <<"P", "A", "R", "I", "S">>,
     <<"P", "a", "r", "i", "s", ",", " ", "I", "l", "e", "-", "d", "e", "-",
       "F", "r", "a", "n", "c", "e", ",", " ", "F", "r", "a", "n", "c", "e">>,
     <<"L", "o", "n", "d", "o", "n">>,
     <<"C", "a", "i", "r", "o">>,
     <<"N", "e", "w", " ", "Y", "o", "r", "k", ",", " ", "U", "S", "A">>,
     <<"T", "i", "m", "b", "u", "k", "t", "u">>,
     <<"K", "a", "t", "h", "m", "a", "n", "d", "u">>,
     <<"D", "e", "n", "v", "e", "r">>,
     <<"Z", "u", "r", "i", "c", "h">>,
     <<"N", "a", "i", "r", "o", "b", "i">>,
     <<"P", "a", "r", "i", "s", "h">>,
     <<"F", "r", "a", "n", "c", "e", ",", " ", "P", "a", "r", "i", "s">>}

\* every string up to this length over LocationAlphabet is a location too
MaxLocationLen == 5

LocationAlphabet == {"r", "O", "m", "e", ",", " "}

Locations ==
    NamedLocations
    \cup UNION {[1..n -> LocationAlphabet] : n \in 0..MaxLocationLen}

IdleOthers == IdleClassify /\ IdleApp /\ IdleThreads

InitEgg ==
    /\ location \in Locations
    /\ egg = NoEgg
    /\ IdleEvaluate
    /\ IdleOthers

\* egg = get_easter_egg(location)
GetEasterEgg ==
    /\ egg = NoEgg
    /\ egg' = get_easter_egg(location)
    /\ UNCHANGED <<location, evalVars, classVars, appVars, threadVars>>

\* the same location is looked up once more
LookUpAgain ==
    /\ egg # NoEgg
    /\ last = NoResult
    /\ last' = egg
    /\ egg' = NoEgg
    /\ UNCHANGED <<location, order, marine, weather, result, pc, classVars,
                   appVars, threadVars>>

NextEgg == GetEasterEgg \/ LookUpAgain

SpecEgg == InitEgg /\ [][NextEgg]_vars


---------------------------------------------------------------------------
(* C19  The easter egg of a location *)

\* the city of a location, said directly: the characters before the first
\* comma, from the first to the last that is not whitespace, in lower case
CityPart(loc) ==
    LET commas == {i \in 1..Len(loc) : loc[i] = ","}
        n == IF commas = {} THEN Len(loc) + 1
             ELSE CHOOSE i \in commas : \A j \in commas : i <= j
        solid == {i \in 1..(n - 1) : loc[i] \notin Whitespace}
    IN  IF solid = {} THEN << >>
        ELSE LET a == CHOOSE i \in solid : \A j \in solid : i <= j
                 b == CHOOSE i \in solid : \A j \in solid : i >= j
             IN  [i \in 1..(b - a + 1) |-> lower(<<loc[a + i - 1]>>)[1]]

LocParis == <<"P", "a", "r", "i", "s">>
LocParisUpper == <<"P", "A", "R", "I", "S">>
LocParisFull ==
    <<"P", "a", "r", "i", "s", ",", " ", "I", "l", "e", "-", "d", "e", "-",
      "F", "r", "a", "n", "c", "e", ",", " ", "F", "r", "a", "n", "c", "e">>
LocTimbuktu == <<"T", "i", "m", "b", "u", "k", "t", "u">>
LocDenver == <<"D", "e", "n", "v", "e", "r">>

---------------------------------------------------------------------------
(* swim_report and _fetch_city_data of app.py, with the two fetches they    *)
(* hand to a thread pool                                                    *)

\* the formats _get_format chooses from
Formats == {"json", "short", "html", "ansi"}

\* the classes an exception is an instance of
ExceptionClasses ==
    [LocationNotFound |-> {"LocationNotFound", "GeocodingError", "Exception"},
     GeocodingError |-> {"GeocodingError", "Exception"},
     NoMarineData |-> {"NoMarineData", "MarineDataError", "Exception"},
     MarineDataError |-> {"MarineDataError", "Exception"},
     WeatherDataError |-> {"WeatherDataError", "Exception"},
     ValueError |-> {"ValueError", "Exception"},
     TypeError |-> {"TypeError", "Exception"}]

\* try ... except: the first clause that catches the exception, "uncaught"
\* when none does
caught_by(exception, clauses) ==
    LET catching ==
            {i \in 1..Len(clauses) : clauses[i] \in ExceptionClasses[exception]}
    IN  IF catching = {} THEN "uncaught"
        ELSE clauses[CHOOSE i \in catching : \A j \in catching : i <= j]

\* the except clauses of swim_report, in the order they are written
geocode_except == <<"LocationNotFound", "GeocodingError">>

\* the except clauses after marine_future.result(), the general one first
marine_except_general_first == <<"MarineDataError", "NoMarineData">>

marine_except == <<"NoMarineData", "MarineDataError">>

weather_except == <<"WeatherDataError">>

\* geocode(location) returns format_location(geo) of the first match, or
\* raises: no match, the request failed, the body is not JSON
ReportLocations == {LocParisFull, LocTimbuktu}

geocode_outcomes ==
    {Returned(loc) : loc \in ReportLocations}
    \cup {Raising("LocationNotFound"), Raising("GeocodingError"),
          Raising("ValueError")}

\* what the marine API answers: the request fails, the body is not JSON,
\* an error with a reason, or the current conditions
ErrorReasons ==
    {"No data is available for this location",
     "Coordinates out of range", "Internal server error"}

\* "no data" in reason.lower() or "out of" in reason.lower()
NotCoastalReasons ==
    {"No data is available for this location", "Coordinates out of range"}

MarineCurrents ==
    {[k \in {f \in {"sea_surface_temperature", "wave_height"} :
                c[f] # Missing} |-> c[k]] :
        c \in [sea_surface_temperature : {Missing, None, Num(80), Num(260)},
               wave_height : {Missing, None, Num(4), Num(35)}]}

MarineApi ==
    {[kind |-> "request_failed"], [kind |-> "bad_json"]}
    \cup {[kind |-> "error", reason |-> r] : r \in ErrorReasons}
    \cup {[kind |-> "data", current |-> c] : c \in MarineCurrents}

\* a fetch that hands on the current conditions without looking at them
fetch_marine_data_unchecked(api) ==
    IF api.kind = "request_failed" THEN Raising("MarineDataError")
    ELSE IF api.kind = "bad_json" THEN Raising("ValueError")
    ELSE IF api.kind = "error"
    THEN IF api.reason \in NotCoastalReasons THEN Raising("NoMarineData")
         ELSE Raising("MarineDataError")
    ELSE Returned([sea_surface_temp |->
                       Get(api.current, "sea_surface_temperature", None),
                   wave_height |-> Get(api.current, "wave_height", None)])

fetch_marine_data(api) ==
    IF api.kind = "request_failed" THEN Raising("MarineDataError")
    ELSE IF api.kind = "bad_json" THEN Raising("ValueError")
    ELSE IF api.kind = "error"
    THEN IF api.reason \in NotCoastalReasons THEN Raising("NoMarineData")
         ELSE Raising("MarineDataError")
    ELSE LET sea_surface_temp ==
                 Get(api.current, "sea_surface_temperature", None)
             wave_height == Get(api.current, "wave_height", None)
         IN  IF sea_surface_temp = None /\ wave_height = None
             THEN Raising("NoMarineData")
             ELSE Returned([sea_surface_temp |-> sea_surface_temp,
                            wave_height |-> wave_height])

WeatherCurrents ==
    {("wind_speed_10m" :> Num(100)) @@ ("uv_index" :> Num(50)) @@
        ("precipitation" :> Num(0)) @@ ("weather_code" :> Num(1)),
     ("wind_speed_10m" :> Num(550)) @@ ("uv_index" :> Num(110)) @@
        ("precipitation" :> Num(150)) @@ ("weather_code" :> Num(95)),
     ("wind_speed_10m" :> Num(100)) @@ ("uv_index" :> None) @@
        ("precipitation" :> None) @@ ("weather_code" :> None),
     << >>}

WeatherApi ==
    {[kind |-> "request_failed"], [kind |-> "bad_json"],
     [kind |-> "error", reason |-> "Internal server error"]}
    \cup {[kind |-> "data", current |-> c] : c \in WeatherCurrents}

fetch_weather_data(api) ==
    IF api.kind = "request_failed" THEN Raising("WeatherDataError")
    ELSE IF api.kind = "bad_json" THEN Raising("ValueError")
    ELSE IF api.kind = "error" THEN Raising("WeatherDataError")
    ELSE Returned(
            [wind_speed |-> Get(api.current, "wind_speed_10m", None),
             uv_index |-> Get(api.current, "uv_index", None),
             precipitation |-> Get(api.current, "precipitation", Num(0)),
             weather_code |-> Get(api.current, "weather_code", Num(0))])

mimetype(f) ==
    IF f = "json" THEN "application/json"
    ELSE IF f \in {"ansi", "short"} THEN "text/plain"
    ELSE "text/html"

_error_response(message, f, status) ==
    [kind |-> "error", status |-> status, mimetype |-> mimetype(f),
     message |-> message]

\* every format carries the joke of the easter egg: whole, or its first
\* sentence in the short format
_not_coastal_response(loc, f) ==
    LET e == get_easter_egg(loc)
    IN  [kind |-> "not_coastal", status |-> 404, mimetype |-> mimetype(f),
         location |-> loc,
         joke |-> IF f = "short" THEN [first_sentence_of |-> e.joke]
                  ELSE [whole |-> e.joke]]

\* the tips render_ansi prints: tips[:3]
render_ansi(score) ==
    [verdict |-> score.verdict,
     metrics |->
        [k \in {"water_temp", "wave_height", "wind_speed", "uv_index"} |->
            IF score.factors[k].value # None
            THEN [value |-> score.factors[k].value,
                  bar |-> Max(0, Min(10, score.factors[k].bar)),
                  label |-> score.factors[k].label]
            ELSE [reason |-> "No data"]],
     weather |-> score.factors["weather_code"].label,
     rain |->
        IF score.factors["precipitation"].value[1] > 0
        THEN [value |-> score.factors["precipitation"].value,
              label |-> score.factors["precipitation"].label]
        ELSE [reason |-> "not shown"],
     summary |-> score.summary,
     tips |-> Prefix(score.tips, 3)]

render_short(score) ==
    [verdict |-> score.verdict,
     water |-> score.factors["water_temp"].value,
     waves |-> score.factors["wave_height"].value]

render_json(score, m, w) ==
    [verdict |-> score.verdict,
     summary |-> score.summary,
     tips |-> score.tips,
     conditions |->
        [water_temperature_c |-> Get(m, "sea_surface_temp", None),
         wave_height_m |-> Get(m, "wave_height", None),
         wind_speed_kmh |-> Get(w, "wind_speed", None),
         uv_index |-> Get(w, "uv_index", None),
         precipitation_mm |-> Get(w, "precipitation", None),
         weather_description |-> score.factors["weather_code"].label],
     factors |->
        [k \in DOMAIN score.factors |->
            [value |-> score.factors[k].value,
             label |-> score.factors[k].label,
             verdict |-> score.factors[k].verdict]]]

\* the response of swim_report for a scored request
report_response(f, score, m, w) ==
    [kind |-> "report", status |-> 200, mimetype |-> mimetype(f),
     body |-> IF f = "json" THEN render_json(score, m, w)
              ELSE IF f = "short" THEN render_short(score)
              ELSE IF f = "html"
              THEN [template |-> "report.html", score |-> score]
              ELSE render_ansi(score)]

\* the dicts _fetch_city_data returns
city_ok(score, m, w) ==
    [verdict |-> score.verdict,
     water_temp |-> Get(m, "sea_surface_temp", None),
     wave_height |-> Get(m, "wave_height", None),
     wind_speed |-> Get(w, "wind_speed", None),
     weather |-> score.factors["weather_code"].label,
     summary |-> score.summary,
     ok |-> TRUE]

city_failed == [ok |-> FALSE]

\* a request arrives at swim_report, or _fetch_all_egypt asks for a city
InitReport ==
    /\ order \in Orders
    /\ \/ handler = "swim_report" /\ fmt \in Formats /\ pc = "geocode"
       \/ handler = "_fetch_city_data" /\ fmt = "none" /\ pc = "submit"
    /\ geo = NoCall
    /\ marine_future = NoCall
    /\ weather_future = NoCall
    /\ response = NoResponse
    /\ marine = << >>
    /\ weather = << >>
    /\ result = NoResult
    /\ last = NoResult
    /\ IdleClassify
    /\ IdleThreads
    /\ IdleEgg

\* swim_report: geo = geocode(location) inside try ... except
Geocode ==
    /\ pc = "geocode"
    /\ \E outcome \in geocode_outcomes :
          /\ geo' = outcome
          /\ IF outcome.state = "returned"
             THEN pc' = "submit" /\ response' = response
             ELSE LET clause ==
                          caught_by(outcome.exception, geocode_except)
                  IN  /\ pc' = "returned"
                      /\ response' =
                            IF clause = "LocationNotFound"
                            THEN _error_response(<<outcome.exception>>, fmt, 404)
                            ELSE IF clause = "GeocodingError"
                            THEN _error_response(<<outcome.exception>>, fmt, 502)
                            ELSE Raised(outcome.exception)
    /\ UNCHANGED <<order, marine, weather, result, last, handler, fmt,
                   marine_future, weather_future, classVars, threadVars,
                   eggVars>>

\* both fetches are submitted to the pool of two workers
Submit ==
    /\ pc = "submit"
    /\ marine_future' = Running
    /\ weather_future' = Running
    /\ pc' = "pool_exit"
    /\ UNCHANGED <<order, marine, weather, result, last, handler, fmt, geo,
                   response, classVars, threadVars, eggVars>>

\* a worker finishes fetch_marine_data
FetchMarine ==
    /\ marine_future = Running
    /\ \E api \in MarineApi : marine_future' = fetch_marine_data(api)
    /\ UNCHANGED <<evalVars, handler, fmt, geo, weather_future, response,
                   classVars, threadVars, eggVars>>

\* a worker finishes fetch_weather_data
FetchWeather ==
    /\ weather_future = Running
    /\ \E api \in WeatherApi : weather_future' = fetch_weather_data(api)
    /\ UNCHANGED <<evalVars, handler, fmt, geo, marine_future, response,
                   classVars, threadVars, eggVars>>

\* leaving the with block shuts the pool down and waits for both workers
PoolExit ==
    /\ pc = "pool_exit"
    /\ marine_future # Running
    /\ weather_future # Running
    /\ pc' = "marine_result"
    /\ UNCHANGED <<order, marine, weather, result, last, appVars, classVars,
                   threadVars, eggVars>>

\* a handler that asks the weather future first: a failed weather fetch
\* answers before the marine outcome is looked at
MarineResult_weather_first ==
    /\ pc = "marine_result"
    /\ marine_future # Running
    /\ weather_future # Running
    /\ IF handler = "swim_report" /\ weather_future.state = "raised"
       THEN /\ marine' = marine
            /\ pc' = "returned"
            /\ response' =
                  LET clause == caught_by(weather_future.exception,
                                          weather_except)
                  IN  IF clause = "WeatherDataError"
                      THEN _error_response(
                               <<"Weather data error: ",
                                 weather_future.exception>>, fmt, 502)
                      ELSE Raised(weather_future.exception)
       ELSE IF marine_future.state = "returned"
       THEN /\ marine' = marine_future.value
            /\ pc' = "weather_result"
            /\ response' = response
       ELSE /\ marine' = marine
            /\ pc' = "returned"
            /\ response' =
                  IF handler = "_fetch_city_data" THEN city_failed
                  ELSE LET clause ==
                               caught_by(marine_future.exception,
                                         marine_except)
                       IN  IF clause = "NoMarineData"
                           THEN _not_coastal_response(geo.value, fmt)
                           ELSE IF clause = "MarineDataError"
                           THEN _error_response(
                                    <<"Marine data error: ",
                                      marine_future.exception>>, fmt, 502)
                           ELSE Raised(marine_future.exception)
    /\ UNCHANGED <<order, weather, result, last, handler, fmt, geo,
                   marine_future, weather_future, classVars, threadVars,
                   eggVars>>

\* marine = marine_future.result(), and what the handler does when it raises
MarineResult ==
    /\ pc = "marine_result"
    /\ marine_future # Running
    /\ IF marine_future.state = "returned"
       THEN /\ marine' = marine_future.value
            /\ pc' = "weather_result"
            /\ response' = response
       ELSE /\ marine' = marine
            /\ pc' = "returned"
            /\ response' =
                  IF handler = "_fetch_city_data" THEN city_failed
                  ELSE LET clause ==
                               caught_by(marine_future.exception,
                                         marine_except)
                       IN  IF clause = "NoMarineData"
                           THEN _not_coastal_response(geo.value, fmt)
                           ELSE IF clause = "MarineDataError"
                           THEN _error_response(
                                    <<"Marine data error: ",
                                      marine_future.exception>>, fmt, 502)
                           ELSE Raised(marine_future.exception)
    /\ UNCHANGED <<order, weather, result, last, handler, fmt, geo,
                   marine_future, weather_future, classVars, threadVars,
                   eggVars>>

\* a handler that scores an empty weather reading when the fetch raised
WeatherResult_swallowing ==
    /\ pc = "weather_result"
    /\ weather_future # Running
    /\ weather' = IF weather_future.state = "returned"
                  THEN weather_future.value ELSE << >>
    /\ pc' = "score"
    /\ UNCHANGED <<order, marine, result, last, appVars, classVars,
                   threadVars, eggVars>>

\* weather = weather_future.result(), and what the handler does when it
\* raises
WeatherResult ==
    /\ pc = "weather_result"
    /\ weather_future # Running
    /\ IF weather_future.state = "returned"
       THEN /\ weather' = weather_future.value
            /\ pc' = "score"
            /\ response' = response
       ELSE /\ weather' = weather
            /\ pc' = "returned"
            /\ response' =
                  IF handler = "_fetch_city_data" THEN city_failed
                  ELSE LET clause ==
                               caught_by(weather_future.exception,
                                         weather_except)
                       IN  IF clause = "WeatherDataError"
                           THEN _error_response(
                                    <<"Weather data error: ",
                                      weather_future.exception>>, fmt, 502)
                           ELSE Raised(weather_future.exception)
    /\ UNCHANGED <<order, marine, result, last, handler, fmt, geo,
                   marine_future, weather_future, classVars, threadVars,
                   eggVars>>

\* score = evaluate_conditions(marine, weather)
Score ==
    /\ pc = "score"
    /\ result' = call_evaluate_conditions(marine, weather)
    /\ pc' = "render"
    /\ UNCHANGED <<order, marine, weather, last, appVars, classVars,
                   threadVars, eggVars>>

\* the handler returns what it made of the score
Render ==
    /\ pc = "render"
    /\ response' =
          IF "raised" \in DOMAIN result
          THEN IF handler = "_fetch_city_data" THEN city_failed
               ELSE Raised(result.raised)
          ELSE IF handler = "_fetch_city_data"
               THEN city_ok(result, marine, weather)
               ELSE report_response(fmt, result, marine, weather)
    /\ pc' = "returned"
    /\ UNCHANGED <<order, marine, weather, result, last, handler, fmt, geo,
                   marine_future, weather_future, classVars, threadVars,
                   eggVars>>

NextReport ==
    \/ Geocode
    \/ Submit
    \/ FetchMarine
    \/ FetchWeather
    \/ PoolExit
    \/ MarineResult
    \/ WeatherResult
    \/ Score
    \/ Render

SpecReport == InitReport /\ [][NextReport]_vars


---------------------------------------------------------------------------
(* C13  What swim_report answers when a step fails *)

Answered == handler = "swim_report" /\ pc = "returned"

Raises(call, exception) ==
    call.state = "raised" /\ call.exception = exception

IsError(status) ==
    /\ "kind" \in DOMAIN response
    /\ response.kind = "error"
    /\ response.status = status

\* C13: in swim_report, the clauses in the order the handler examines the
\* outcomes.  LocationNotFound from geocoding gives 404 and any other
\* GeocodingError 502.  NoMarineData from the marine fetch gives the
\* friendly not-coastal response, status 404 with the joke of the location,
\* never a 502, whatever the weather fetch did; any other MarineDataError
\* gives 502; a WeatherDataError, the marine reading being there, gives 502.
C13_FailureResponses ==
    Answered =>
        /\ Raises(geo, "LocationNotFound") => IsError(404)
        /\ Raises(geo, "GeocodingError") => IsError(502)
        /\ Raises(marine_future, "NoMarineData") =>
              /\ "kind" \in DOMAIN response
              /\ response.kind = "not_coastal"
              /\ response.status = 404
              /\ response.joke \in
                    {[whole |-> get_easter_egg(geo.value).joke],
                     [first_sentence_of |-> get_easter_egg(geo.value).joke]}
              /\ ~IsError(502)
        /\ Raises(marine_future, "MarineDataError") =>
              /\ IsError(502)
              /\ response.message[1] = "Marine data error: "
        /\ /\ marine_future.state = "returned"
           /\ Raises(weather_future, "WeatherDataError")
           => /\ IsError(502)
              /\ response.message[1] = "Weather data error: "

\* an inland location while the weather service is down: not coastal, 404
C13_Witness ==
    /\ Answered
    /\ Raises(marine_future, "NoMarineData")
    /\ Raises(weather_future, "WeatherDataError")
    /\ response.kind = "not_coastal"
    /\ response.status = 404

---------------------------------------------------------------------------
(* C14  Scoring comes after both fetches, and only when nothing failed *)

Failed(call) == call.state = "raised"

\* C14: in swim_report and in _fetch_city_data, evaluate_conditions is
\* called only when both fetches have completed and returned a reading
\* (and, in swim_report, geocoding returned); once geocoding or a fetch has
\* failed, it is never called for that request.
C14_ScoreOnlyAfterBothFetches ==
    [][/\ result' # result =>
            /\ marine_future.state = "returned"
            /\ weather_future.state = "returned"
            /\ handler = "swim_report" => geo.state = "returned"
            /\ marine = marine_future.value
            /\ weather = weather_future.value
       /\ Failed(geo') \/ Failed(marine_future') \/ Failed(weather_future')
            => result' = NoResult]_vars

\* a city was scored after both of its fetches returned
C14_Witness ==
    /\ handler = "_fetch_city_data"
    /\ pc = "returned"
    /\ marine_future.state = "returned"
    /\ weather_future.state = "returned"
    /\ result # NoResult
    /\ response = city_ok(result, marine, weather)


---------------------------------------------------------------------------
(* C17  How many tips a rendered report carries *)

\* C17: no output rendered from a result by render_ansi or render_json
\* contains more than three of the result's tips: it shows the first three.
C17_AtMostThreeTipsRendered ==
    /\ Answered
    /\ "kind" \in DOMAIN response
    /\ response.kind = "report"
    /\ fmt \in {"ansi", "json"}
    => /\ Len(response.body.tips) <= 3
       /\ response.body.tips = Prefix(result.tips, 3)


---------------------------------------------------------------------------
(* C15  A weather reading without precipitation or without a code *)

\* C15: a weather reading with no precipitation (missing or None) is scored
\* as precipitation 0, and one with no weather code as code 0: the
\* precipitation factor has value 0 and verdict YES, the weather_code
\* factor value 0, label "Clear sky" and verdict YES.
C15_AbsentScoredAsZero ==
    Done =>
        /\ ~Present(weather, "precipitation") =>
              /\ result.factors["precipitation"].value = Num(0)
              /\ result.factors["precipitation"].verdict = YES
              /\ result.factors["precipitation"].label = "None"
        /\ ~Present(weather, "weather_code") =>
              /\ result.factors["weather_code"].value = Num(0)
              /\ result.factors["weather_code"].label = "Clear sky"
              /\ result.factors["weather_code"].verdict = YES

\* precipitation is missing and the weather code is None, both scored as 0
C15_Witness ==
    /\ Done
    /\ "precipitation" \notin DOMAIN weather
    /\ "weather_code" \in DOMAIN weather
    /\ weather["weather_code"] = None
    /\ result.factors["precipitation"].value = Num(0)
    /\ result.factors["weather_code"].label = "Clear sky"

---------------------------------------------------------------------------
(* C16  The label of the weather_code factor *)

\* the labels of the five threshold tables
ThresholdLabels ==
    UNION {{Tables[t][i][2] : i \in 1..Len(Tables[t])} : t \in TableNames}

\* C16: the label of the weather_code factor is the WMO description of the
\* code, "Unknown" for a code the description table does not hold; it is
\* never a label of a threshold table; and a code without a description
\* still gets the verdict YES.
C16_WeatherCodeLabel ==
    /\ \A code \in DOMAIN WMO_WEATHER_DESCRIPTIONS :
          WMO_WEATHER_DESCRIPTIONS[code] \notin ThresholdLabels
    /\ "Unknown" \notin
          {WMO_WEATHER_DESCRIPTIONS[code] :
              code \in DOMAIN WMO_WEATHER_DESCRIPTIONS}
    /\ Done =>
          LET wc == result.factors["weather_code"]
              code == wc.value[1]
          IN  /\ code \in DOMAIN WMO_WEATHER_DESCRIPTIONS =>
                    wc.label = WMO_WEATHER_DESCRIPTIONS[code]
              /\ code \notin DOMAIN WMO_WEATHER_DESCRIPTIONS =>
                    wc.label = "Unknown" /\ wc.verdict = YES
              /\ Present(weather, "weather_code") =>
                    code = weather["weather_code"][1]
              /\ code = 1 => wc.label = "Mainly clear"
              /\ code = 4 => wc.label = "Unknown"
              /\ code = 61 => wc.label = "Slight rain"
              /\ code = 96 => wc.label = "Thunderstorm with slight hail"

\* code 4 has no description: "Unknown", and the beach stays open
C16_Witness ==
    /\ Done
    /\ Present(weather, "weather_code")
    /\ weather["weather_code"] = Num(4)
    /\ result.factors["weather_code"].label = "Unknown"
    /\ result.factors["weather_code"].verdict = YES
    /\ result.verdict = YES

---------------------------------------------------------------------------
(* C20  The summary of a MAYBE verdict *)

MaybeFactors == {k \in SafetyKeys : VerdictOf(k) = MAYBE}

\* C20: evaluate_conditions never returns the summary "Conditions are
\* mixed. Swim with caution.": whenever the overall verdict is MAYBE,
\* exactly one safety factor has the verdict MAYBE and the summary is
\* "Swim with caution: " followed by that one factor.
C20_MaybeNamesOneFactor ==
    Done =>
        /\ result.summary # "Conditions are mixed. Swim with caution."
        /\ result.verdict = MAYBE =>
              /\ Cardinality(MaybeFactors) = 1
              /\ \A k \in MaybeFactors :
                    result.summary
                        = "Swim with caution: " \o SummaryItem(k) \o "."

\* only the wind is at MAYBE, and the summary names it
C20_Witness ==
    /\ Done
    /\ result.verdict = MAYBE
    /\ MaybeFactors = {"wind_speed"}
    /\ result.summary = "Swim with caution: strong wind."


---------------------------------------------------------------------------
(* Calls of evaluate_conditions running side by side in one process, as    *)
(* under the pool of _fetch_all_egypt.  A step of a call is one section of *)
(* the function body; threads may be switched between any two steps.       *)

\* how many calls run side by side
NumCalls == 2

Callers == 1..NumCalls

\* the sections of the body, in the order they are written
Sections ==
    <<"enter", "water_temp", "wave_height", "wind_speed", "uv_index",
      "precipitation", "weather_code", "finish">>

\* the readings the calls are made with
ConcurrentRequests ==
    {Nominal,
     With2("wave_height", 16, "wind_speed", 350),
     [sea_surface_temp |-> Num(80), wave_height |-> Num(35),
      wind_speed |-> Num(550), uv_index |-> Num(110),
      precipitation |-> Missing, weather_code |-> Num(95)]}

\* the frame of a call that has not entered the body
NoFrame == [none |-> TRUE]

\* factors[key] = {...} of a section
section_factor(key, m, w) ==
    CASE key = "water_temp" -> water_temp_factor(m)
      [] key = "wave_height" -> wave_height_factor(m)
      [] key = "wind_speed" -> wind_speed_factor(w)
      [] key = "uv_index" -> uv_index_factor(w)
      [] key = "precipitation" -> precipitation_factor(w)
      [] key = "weather_code" -> weather_code_factor(w)

\* the tips.append calls of a section
section_tips(key, m, w) ==
    CASE key = "water_temp" -> water_temp_tips(m)
      [] key = "wave_height" -> wave_height_tips(m)
      [] key = "wind_speed" -> wind_speed_tips(w)
      [] key = "uv_index" -> uv_index_tips(w)
      [] key = "precipitation" -> << >>
      [] key = "weather_code" -> weather_code_tips(w)

\* factors and tips behind one name shared by every call
frame_of_shared(c) == 1

\* where the local variables factors and tips of call c live: "factors = {}"
\* and "tips = []" make new objects in the frame of each call
frame_of(c) == c

InitConcurrent ==
    /\ order \in Orders
    /\ calls \in [Callers ->
                    {[marine |-> Reading(req, MarineKeys),
                      weather |-> Reading(req, WeatherKeys),
                      at |-> 1, returned |-> NoResult] :
                        req \in ConcurrentRequests}]
    /\ frames = [c \in Callers |-> NoFrame]
    /\ marine = << >>
    /\ weather = << >>
    /\ result = NoResult
    /\ last = NoResult
    /\ pc = "idle"
    /\ IdleClassify
    /\ IdleApp
    /\ IdleEgg

\* call c runs its next section
Step(c) ==
    LET call == calls[c]
        section == Sections[call.at]
        f == frame_of(c)
        frame == frames[f]
    IN  /\ call.at <= Len(Sections)
        /\ IF section = "enter"
           THEN /\ frames' = [frames EXCEPT
                                ![f] = [factors |-> << >>, tips |-> << >>]]
                /\ calls' = [calls EXCEPT ![c].at = @ + 1]
           ELSE IF section = "finish"
           THEN LET verdict == _compute_verdict(frame.factors)
                    summary == _generate_summary(verdict, frame.factors)
                IN  /\ calls' = [calls EXCEPT
                                   ![c].at = @ + 1,
                                   ![c].returned =
                                       [verdict |-> verdict,
                                        factors |-> frame.factors,
                                        tips |-> frame.tips,
                                        summary |-> summary]]
                    /\ frames' = frames
           ELSE /\ frames' =
                      [frames EXCEPT
                          ![f] = [factors |->
                                      (section :>
                                          section_factor(section, call.marine,
                                                         call.weather))
                                      @@ frame.factors,
                                  tips |->
                                      frame.tips
                                      \o section_tips(section, call.marine,
                                                      call.weather)]]
                /\ calls' = [calls EXCEPT ![c].at = @ + 1]
        /\ UNCHANGED <<evalVars, classVars, appVars, eggVars>>

NextConcurrent == \E c \in Callers : Step(c)

SpecConcurrent == InitConcurrent /\ [][NextConcurrent]_vars

---------------------------------------------------------------------------
(* C18  Calls side by side do not disturb one another *)

Finished(c) == calls[c].at > Len(Sections)

\* C18: with any number of calls of evaluate_conditions running side by
\* side and their steps interleaved in any way, each call returns exactly
\* what the same call returns when run alone; a step of one call writes
\* nothing that another call reads: it leaves the other calls and their
\* local variables as they were.
C18_CallsIndependent ==
    /\ [](\A c \in Callers :
            Finished(c) =>
                calls[c].returned
                    = evaluate_conditions(calls[c].marine, calls[c].weather))
    /\ [][\A c, d \in Callers :
            c # d /\ calls'[c] # calls[c] =>
                calls'[d] = calls[d] /\ frames'[d] = frames[d]]_vars

\* two calls with different readings have both returned, each its own
\* result
C18_Witness ==
    /\ \A c \in Callers : Finished(c)
    /\ calls[1].marine # calls[2].marine
    /\ calls[1].returned.verdict = YES
    /\ calls[2].returned.verdict = NO
    /\ Len(calls[2].returned.tips) = 5
    /\ calls[1].returned.tips = <<"Moderate UV. Sunscreen recommended.">>


\* the marine API answered with current conditions holding no number at all
NoMarineNumbers(api) ==
    /\ api.kind = "data"
    /\ Get(api.current, "sea_surface_temperature", None) = None
    /\ Get(api.current, "wave_height", None) = None

\* the handler has called evaluate_conditions
Scored == handler # "none" /\ pc \in {"render", "returned"} /\ result # NoResult

\* C21: a location with no marine data never reaches the evaluator.
\* fetch_marine_data raises NoMarineData whenever both
\* sea_surface_temperature and wave_height are null (or absent) in the
\* response, and on every path through swim_report and _fetch_city_data the
\* evaluator is called with at least one of sea_surface_temp and wave_height
\* present.
C21_ScoredWithMarineData ==
    /\ \A api \in MarineApi :
          NoMarineNumbers(api) =>
              fetch_marine_data(api) = Raising("NoMarineData")
    /\ marine_future = Raising("NoMarineData") => result = NoResult
    /\ Scored =>
          /\ marine_future.state = "returned"
          /\ marine = marine_future.value
          /\ Present(marine, "sea_surface_temp")
                \/ Present(marine, "wave_height")

\* a report was scored with the water temperature alone, the wave height
\* being null
C21_Witness ==
    /\ Scored
    /\ handler = "swim_report"
    /\ Present(marine, "sea_surface_temp")
    /\ ~Present(marine, "wave_height")
    /\ "verdict" \in DOMAIN result


\* the upper bounds of a table rise strictly and only the last one is inf
StrictlyAscending(thresholds) ==
    /\ \A i \in 1..(Len(thresholds) - 1) :
          /\ thresholds[i][1] # inf
          /\ Less(thresholds[i][1][1], thresholds[i + 1][1])
    /\ thresholds[Len(thresholds)][1] = inf

\* the entries of a table whose upper bound exceeds value
Exceeding(value, thresholds) ==
    {i \in 1..Len(thresholds) : Less(value, thresholds[i][1])}

\* C22: each of the five threshold tables is strictly ascending by upper
\* bound and ends with an entry whose upper bound is +infinity, so for every
\* present value _classify returns from inside its loop, at the first entry
\* whose upper bound exceeds the value, and the return after the loop is never
\* taken.
C22_TablesTotal ==
    /\ \A t \in TableNames : StrictlyAscending(Tables[t])
    /\ cresult # NoClass /\ cvalue # None =>
          LET thresholds == Tables[ctable]
              at == classify_return(cvalue[1], thresholds, 1)
          IN  /\ at # 0
              /\ at \in Exceeding(cvalue[1], thresholds)
              /\ \A i \in Exceeding(cvalue[1], thresholds) : at <= i
              /\ cresult = <<thresholds[at][2], thresholds[at][3]>>

\* a UV index above every finite bound was classified by the last entry
C22_Witness ==
    /\ ctable = "uv_index"
    /\ cvalue = Num(MaxClassifyValue)
    /\ cresult = <<"Extreme", NoneVerdict>>


---------------------------------------------------------------------------
(* evaluate_conditions called twice, the second time with one numeric
   safety measurement raised, everything else as before *)

\* the numeric safety measurements
RaisedFields == {"wave_height", "wind_speed", "precipitation"}

RaiseChoices ==
    [sea_surface_temp |-> {Nominal.sea_surface_temp},
     wave_height |-> {Missing, None} \cup Nums({4, 14, 15, 20, 35}),
     wind_speed |-> {None} \cup Nums({100, 200, 350, 400, 550}),
     uv_index |-> {Nominal.uv_index},
     precipitation |-> {Missing, None} \cup Nums({0, 19, 20, 50}),
     weather_code |-> Nums({1, 61})]

RaiseRequests ==
    {[sea_surface_temp |-> t, wave_height |-> h, wind_speed |-> s,
      uv_index |-> u, precipitation |-> p, weather_code |-> c] :
        t \in RaiseChoices.sea_surface_temp, h \in RaiseChoices.wave_height,
        s \in RaiseChoices.wind_speed, u \in RaiseChoices.uv_index,
        p \in RaiseChoices.precipitation, c \in RaiseChoices.weather_code}

\* the dict d with key set to value
Put(d, key, value) ==
    [k \in DOMAIN d \cup {key} |-> IF k = key THEN value ELSE d[k]]

InitRaise ==
    /\ order \in Orders
    /\ \E req \in RaiseRequests :
          /\ marine = Reading(req, MarineKeys)
          /\ weather = Reading(req, WeatherKeys)
    /\ result = NoResult
    /\ last = NoResult
    /\ pc = "ready"
    /\ IdleClassify
    /\ IdleApp
    /\ IdleThreads
    /\ IdleEgg

\* the next call has one measurement raised, or given where it was absent
RaiseOne ==
    /\ pc = "done"
    /\ last = NoResult
    /\ \E f \in RaisedFields :
          \E value \in RaiseChoices[f] \ {Missing, None} :
             LET d == IF f \in MarineKeys THEN marine ELSE weather
             IN  /\ Present(d, f) => d[f][1] < value[1]
                 /\ IF f \in MarineKeys
                    THEN marine' = Put(marine, f, value) /\ weather' = weather
                    ELSE weather' = Put(weather, f, value) /\ marine' = marine
    /\ last' = result
    /\ result' = NoResult
    /\ pc' = "ready"
    /\ UNCHANGED <<order, classVars, appVars, threadVars, eggVars>>

NextRaise == Evaluate \/ RaiseOne

SpecRaise == InitRaise /\ [][NextRaise]_vars

\* YES < MAYBE < NO, a factor without a verdict ranking below YES
VerdictRank(verdict) ==
    IF verdict = NO THEN 3
    ELSE IF verdict = MAYBE THEN 2
    ELSE IF verdict = YES THEN 1
    ELSE 0

\* both calls have returned a result
BothScored ==
    /\ Done
    /\ last # NoResult
    /\ "verdict" \in DOMAIN last
    /\ "verdict" \in DOMAIN result

\* C23: the overall verdict is monotone in each numeric safety measurement.
\* With all other inputs fixed, raising wave_height, wind_speed or
\* precipitation, or giving it a value where it was absent, never improves
\* the overall verdict in the order YES < MAYBE < NO, and no factor's own
\* verdict decreases.
C23_VerdictMonotone ==
    BothScored =>
        /\ VerdictRank(last.verdict) <= VerdictRank(result.verdict)
        /\ \A key \in RaisedFields :
              VerdictRank(last.factors[key].verdict)
                  <= VerdictRank(result.factors[key].verdict)

\* a third cautionary factor appeared and the beach stayed closed
C23_Witness ==
    /\ BothScored
    /\ verdict_count(last.factors, MAYBE) = 2
    /\ verdict_count(result.factors, MAYBE) = 3
    /\ last.verdict = NO
    /\ result.verdict = NO


\* one or two distinct safety factors, in some order
KeyLists ==
    {<<key>> : key \in SafetyKeys}
    \cup {pair \in SafetyKeys \X SafetyKeys : pair[1] # pair[2]}

\* the lists of factors the closed-beach summary of the result can be read as
ClosedNaming ==
    {keys \in KeyLists :
        result.summary = "Beach closed: " \o ItemList(keys) \o "."}

\* one of the lists of factors in naming holds a factor whose verdict is
\* wanted
NamesIn(naming, wanted) ==
    \E keys \in naming :
        \E i \in DOMAIN keys : VerdictOf(keys[i]) = wanted

\* the closed-beach summary names a factor whose verdict is wanted
NamesFactor(wanted) == NamesIn(ClosedNaming, wanted)

\* the beach is closed and some safety factor has verdict NO
ClosedByNo ==
    /\ Done
    /\ result.verdict = NO
    /\ \E key \in SafetyKeys : VerdictOf(key) = NO

\* C24 as stated: whenever the overall verdict is NO and at least one safety
\* factor has verdict NO, the "Beach closed: ..." summary names at least one
\* factor whose verdict is NO.
C24_ClosedSummaryNamesNo_AsStated == ClosedByNo => NamesFactor(NO)

\* C24 as amended: whenever the overall verdict is NO and a safety factor has
\* verdict NO, the summary names the first two (or the only) NO-or-MAYBE
\* factors in the iteration order of SAFETY_FACTORS, so it names a NO factor
\* exactly when one of those first two is NO, which is always the case when
\* at most two factors are flagged.
C24_ClosedSummaryNamesFirstTwo ==
    ClosedByNo =>
        LET flagged == Flagged({NO, MAYBE})
            named == Prefix(flagged, 2)
            naming == ClosedNaming
        IN  /\ naming = {named}
            /\ NamesIn(naming, NO) <=>
                  \E i \in DOMAIN named : VerdictOf(named[i]) = NO
            /\ Len(flagged) <= 2 => NamesIn(naming, NO)

\* three factors are flagged, the NO one comes second in iteration order and
\* is named after a MAYBE one
C24_Witness ==
    /\ ClosedByNo
    /\ Len(Flagged({NO, MAYBE})) = 3
    /\ VerdictOf(Flagged({NO, MAYBE})[1]) = MAYBE
    /\ VerdictOf(Flagged({NO, MAYBE})[2]) = NO
    /\ VerdictOf(Flagged({NO, MAYBE})[3]) = MAYBE
    /\ NamesFactor(NO)
    /\ NamesFactor(MAYBE)


\* every list of distinct safety factors that starts with keys
RECURSIVE Extensions(_)
Extensions(keys) ==
    {keys}
    \cup UNION {Extensions(Append(keys, key)) :
                   key \in SafetyKeys \ Range(keys)}

\* one to four distinct safety factors, in some order
AllKeyLists == Extensions(<< >>) \ {<< >>}

\* the summary of the result is "Swim with caution: " and a list of factors
CautionNamed ==
    \E keys \in AllKeyLists :
        result.summary = "Swim with caution: " \o ItemList(keys) \o "."

\* which of the texts of _generate_summary the summary of the result is
SummaryKind ==
    IF result.summary = "Beach is open. Go swim!" THEN "open"
    ELSE IF result.summary = "Not safe to swim." THEN "not safe"
    ELSE IF result.summary = "Conditions are mixed. Swim with caution."
    THEN "mixed"
    ELSE IF ClosedNaming # {} THEN "closed"
    ELSE IF CautionNamed THEN "caution"
    ELSE "other"

\* C25: the fallback "Not safe to swim." is unreachable through
\* evaluate_conditions. Whenever the overall verdict is NO at least one safety
\* factor has verdict NO or MAYBE, so the summary starts with "Beach closed: "
\* and names at least one factor; and the summary prefix corresponds to the
\* verdict: "Beach is open" only for YES, "Swim with caution" only for MAYBE,
\* "Beach closed" only for NO.
C25_SummaryMatchesVerdict ==
    Done =>
        /\ result.summary # "Not safe to swim."
        /\ result.verdict = NO =>
              \E key \in SafetyKeys : VerdictOf(key) \in {NO, MAYBE}
        /\ SummaryKind =
              (CASE result.verdict = YES -> "open"
                 [] result.verdict = MAYBE -> "caution"
                 [] result.verdict = NO -> "closed")

\* a beach closed by two cautionary factors alone, both of them named
C25_Witness ==
    /\ Done
    /\ result.verdict = NO
    /\ \A key \in SafetyKeys : VerdictOf(key) # NO
    /\ \E keys \in ClosedNaming :
          Len(keys) = 2 /\ \A i \in 1..2 : VerdictOf(keys[i]) = MAYBE


\* C26 as stated: the wave tip agrees with the wave verdict. "Dangerous waves.
\* Red flag conditions." is emitted exactly when the wave_height factor's
\* verdict is NO, and "Rough waves. Experienced swimmers only." only when the
\* wave_height factor's verdict is MAYBE.
C26_WaveTipAgrees_AsStated ==
    Done =>
        /\ HasTip("Dangerous waves. Red flag conditions.")
              <=> VerdictOf("wave_height") = NO
        /\ HasTip("Rough waves. Experienced swimmers only.")
              => VerdictOf("wave_height") = MAYBE

\* C26 as amended: the wave tips follow their own thresholds, which lie at or
\* above those of the verdict. The dangerous-waves tip is emitted only when
\* the wave verdict is NO, and a NO verdict carries the dangerous-waves tip
\* from 2.5 m and the rough-waves tip from 2.0 m to below 2.5 m; the
\* rough-waves tip is emitted only when the wave verdict is MAYBE or NO, and
\* with MAYBE exactly from 1.5 m to below 2.0 m.
C26_WaveTipWithinVerdict ==
    Done =>
        /\ HasTip("Dangerous waves. Red flag conditions.")
              => VerdictOf("wave_height") = NO
        /\ VerdictOf("wave_height") = NO =>
              /\ HasTip("Dangerous waves. Red flag conditions.")
                    <=> AtLeast(marine, "wave_height", 25)
              /\ HasTip("Rough waves. Experienced swimmers only.")
                    <=> InRange(marine, "wave_height", 20, 25)
        /\ HasTip("Rough waves. Experienced swimmers only.")
              => VerdictOf("wave_height") \in {MAYBE, NO}
        /\ VerdictOf("wave_height") = MAYBE =>
              (HasTip("Rough waves. Experienced swimmers only.")
                  <=> InRange(marine, "wave_height", 15, 20))

\* waves of 2.0 m: the wave verdict is NO and the tip is the rough-waves one
C26_Witness ==
    /\ Done
    /\ marine = Reading(With1("wave_height", 20), MarineKeys)
    /\ VerdictOf("wave_height") = NO
    /\ HasTip("Rough waves. Experienced swimmers only.")
    /\ ~HasTip("Dangerous waves. Red flag conditions.")


\* every text a "Dangerous weather: ..." tip can have
DangerousWeatherTips ==
    {"Dangerous weather: " \o desc \o ". Beach closed." :
        desc \in {"Unknown"}
                 \cup {WMO_WEATHER_DESCRIPTIONS[code] :
                          code \in DOMAIN WMO_WEATHER_DESCRIPTIONS}}

\* the tips that speak of danger
DangerTips ==
    {"Dangerous waves. Red flag conditions.",
     "Strong winds create dangerous rip currents."}
    \cup DangerousWeatherTips

\* C27: a danger tip never accompanies an open beach. If the tips of a result
\* contain "Dangerous waves. Red flag conditions.", "Strong winds create
\* dangerous rip currents." or a "Dangerous weather: ..." tip, the overall
\* verdict of that result is NO; and the strong-wind tip is present exactly
\* when the wind_speed factor's verdict is NO.
C27_DangerTipClosesBeach ==
    Done =>
        /\ (\E tip \in DangerTips : HasTip(tip)) => result.verdict = NO
        /\ HasTip("Strong winds create dangerous rip currents.")
              <=> VerdictOf("wind_speed") = NO

\* wind of exactly 40 km/h alone: the strong-wind tip, wind verdict NO, and
\* the beach is closed
C27_Witness ==
    /\ Done
    /\ IsRequest(With1("wind_speed", 400))
    /\ result.tips = <<"Strong winds create dangerous rip currents.",
                       "Moderate UV. Sunscreen recommended.">>
    /\ VerdictOf("wind_speed") = NO
    /\ result.verdict = NO


\* the lists of factors the cautionary summary of the result can be read as
CautionNaming ==
    {keys \in AllKeyLists :
        result.summary = "Swim with caution: " \o ItemList(keys) \o "."}

\* the summary of the result has an item for the weather; a text reads as
\* a closed-beach list or as a cautionary list, never as both
NamesWeather ==
    /\ result.summary # "Beach is open. Go swim!"
    /\ IF ClosedNaming # {}
       THEN \E keys \in ClosedNaming : "weather_code" \in Range(keys)
       ELSE \E keys \in CautionNaming : "weather_code" \in Range(keys)

\* C28: every code of the dangerous set and of the warning set has an entry in
\* the WMO description table, and the two sets share no code; hence whenever
\* the weather_code factor's verdict is MAYBE or NO its label is not
\* "Unknown", and neither a "Dangerous weather: ..." tip nor a summary item
\* for the weather contains "Unknown".
C28_FlaggedCodesDescribed ==
    /\ DANGEROUS_WEATHER_CODES \cup WARNING_WEATHER_CODES
          \subseteq DOMAIN WMO_WEATHER_DESCRIPTIONS
    /\ DANGEROUS_WEATHER_CODES \cap WARNING_WEATHER_CODES = {}
    /\ Done =>
          /\ VerdictOf("weather_code") \in {MAYBE, NO} =>
                result.factors["weather_code"].label # "Unknown"
          /\ ~HasTip("Dangerous weather: Unknown. Beach closed.")
          /\ \/ result.factors["weather_code"].label = "Unknown"
             \/ SummaryItem("weather_code") = "unknown weather"
             => ~NamesWeather

\* heavy snow showers alone: the weather is the one cautionary factor and the
\* summary names it by its description
C28_Witness ==
    /\ Done
    /\ IsRequest(With1("weather_code", 86))
    /\ VerdictOf("weather_code") = MAYBE
    /\ result.factors["weather_code"].label = "Heavy snow showers"
    /\ NamesWeather
    /\ result.summary = "Swim with caution: heavy snow showers weather."


\* the response tells of a failed weather fetch
WeatherFailureResponse ==
    IsError(502) /\ response.message[1] = "Weather data error: "

\* C29: in swim_report the marine outcome is examined before the weather
\* outcome. When both fetches fail the response is decided by the marine
\* failure alone: NoMarineData gives the not-coastal 404 response, another
\* MarineDataError a 502 with a marine message. A weather failure decides the
\* response only when the marine fetch succeeded. Exactly one response is
\* produced per request: none before the handler returns, one when it
\* returns, never replaced, and the handler asks a future for its result only
\* when the fetch has finished.
C29_MarineExaminedFirst ==
    /\ [](Answered =>
             /\ Failed(marine_future) /\ Failed(weather_future) =>
                   /\ Raises(marine_future, "NoMarineData") =>
                         response = _not_coastal_response(geo.value, fmt)
                   /\ Raises(marine_future, "MarineDataError") =>
                         response = _error_response(
                                        <<"Marine data error: ",
                                          "MarineDataError">>, fmt, 502)
                   /\ "raised" \in DOMAIN response =>
                         response = Raised(marine_future.exception)
                   /\ ~WeatherFailureResponse
             /\ WeatherFailureResponse =>
                   /\ marine_future.state = "returned"
                   /\ Failed(weather_future)
             /\ response # NoResponse)
    /\ [](handler = "swim_report" /\ pc # "returned" =>
             /\ response = NoResponse
             /\ pc \in {"marine_result", "weather_result"} =>
                   marine_future # Running /\ weather_future # Running)
    /\ [][handler = "swim_report" =>
             /\ response # NoResponse => response' = response
             /\ response' # response => pc # "returned" /\ pc' = "returned"]_vars

\* both services are down for a place found by geocoding: the answer is the
\* marine 502, the weather failure is not looked at
C29_Witness ==
    /\ Answered
    /\ Raises(marine_future, "MarineDataError")
    /\ Raises(weather_future, "WeatherDataError")
    /\ IsError(502)
    /\ response.message = <<"Marine data error: ", "MarineDataError">>


\* the tips of the result that come from a source
TipsOf(source) ==
    {i \in 1..Len(result.tips) : TipSource(result.tips[i]) = source}

\* C30: evaluate_conditions emits at most one tip per source (water
\* temperature, waves, wind, UV, weather code), the tiers of one source being
\* mutually exclusive, so a result never holds more than five tips and never
\* holds both tiers of the same source, such as both the very-cold and the
\* cold water tip.
C30_OneTipPerSource ==
    Done =>
        /\ \A i \in 1..Len(result.tips) : TipSource(result.tips[i]) \in 1..5
        /\ \A source \in 1..5 : Cardinality(TipsOf(source)) <= 1
        /\ Len(result.tips) <= 5
        /\ ~(HasTip("Water is very cold. Consider a wetsuit.")
             /\ HasTip("Water is cold. A wetsuit may help."))
        /\ ~(HasTip("Dangerous waves. Red flag conditions.")
             /\ HasTip("Rough waves. Experienced swimmers only."))
        /\ \A a, b \in UvTips : HasTip(a) /\ HasTip(b) => a = b

\* very cold water with very high UV: one tip of each of the two sources, the
\* upper tier of both
C30_Witness ==
    /\ Done
    /\ IsRequest(With2("sea_surface_temp", -10, "uv_index", 110))
    /\ result.tips = <<"Water is very cold. Consider a wetsuit.",
                       "Very high UV. Wear sunscreen SPF 50+ and reapply often.">>

====
